---- MODULE Spec2Model ----
(***************************************************************************)
(* The photon end-to-end-encryption vault: the AuthProvider of the chat    *)
(* client (React state + async handlers), the crypto helpers it calls, and *)
(* the external collaborators it talks to (Firebase Auth, Firestore).      *)
(*                                                                         *)
(* One browser tab of one identity is modelled.  Every async handler is a  *)
(* process whose steps are its await points; the values a handler read     *)
(* from React state when it was called (its closure) are kept in the       *)
(* process record and are NOT refreshed afterwards, exactly as a closure   *)
(* over useState values behaves.                                           *)
(***************************************************************************)
EXTENDS Integers, Sequences, FiniteSets, TLC

\* ---------------------------------------------------------------- bounds
\* API calls (and page reloads) one behaviour may start.
MaxCalls == 4
\* Snapshots of the chat document the ChatRoom listener may receive.
MaxSnapshots == 2
\* decapAndSaveKey / encapAndSaveKey calls that may run side by side.
MaxUpdates == 2

\* ------------------------------------------------------------- universes
Uid       == "u1"
Email     == "alice@example.com"
Passwords == {"p1", "p2"}
DuressPasswords == {"p2"}
Chats     == {"c1"}
Secrets   == {"s1"}
\* Public keys a peer may have encapsulated against: ours, or another one.
PeerTargets == {"pk1", "pk9"}
\* The other participant of the chat and its key pair.
Peer           == "u2"
PeerPublicKey  == "pk2"
PeerPrivateKey == "sk2"

\* Optional values (null | value) are sequences of length 0 or 1.
NULL      == << >>
Some(x)   == << x >>
Get(o)    == o[1]
IsNull(o) == o = << >>

\* ----------------------------------------------------------- crypto (lib)
\* hashPasswordForStorage: deterministic one-way hash, compared by equality.
hashPasswordForStorage(password) == << "sha256", password >>

\* getSaltForUser: SHA-256 of the e-mail as given, first 16 bytes.
getSaltForUser(email) == << "sha256/16", email >>

\* deriveMasterKey: PBKDF2 of (password, salt); deterministic.
deriveMasterKey(password, salt) == << "pbkdf2", password, salt >>

\* encryptWithAES: AES-GCM; the ciphertext is bound to the key.  The random
\* 96-bit IV is not represented: no step of the program compares
\* ciphertexts, it only decrypts them.
encryptWithAES(key, data) == [key |-> key, data |-> data]

\* A decryption whose tag verifies under every key.
CanDecrypt_AnyKey(key, packed) == TRUE

\* decryptWithAES: the tag verifies only under the encrypting key; under any
\* other key crypto.subtle.decrypt rejects with an OperationError.
CanDecrypt(key, packed) == packed.key = key
decryptWithAES(key, packed) ==
  IF CanDecrypt(key, packed) THEN packed.data ELSE "OperationError"

\* JSON.stringify / JSON.parse of a flat chatId -> secret map.
JSONstringify(map) == { << k, map[k] >> : k \in DOMAIN map }
JSONparse(text) ==
  [k \in { p[1] : p \in text } |-> (CHOOSE p \in text : p[1] = k)[2]]

\* generateKyberKeyPair: the one key pair of the modelled identity.
generateKyberKeyPair == [publicKey |-> "pk1", privateKey |-> "sk1"]
PublicOf(privateKey) ==
  IF privateKey = "sk1" THEN "pk1"
  ELSE IF privateKey = "sk2" THEN "pk2"
  ELSE "pk?"

\* encapSharedSecret: fresh secret ss, ciphertext bound to the public key.
encapSharedSecret(recipientPublicKey, ss) ==
  [sharedSecret |-> ss, ciphertext |-> [pk |-> recipientPublicKey, ss |-> ss]]

\* A decapsulation that does not recover the encapsulated secret.
decapSharedSecret_Unrelated(myPrivateKey, ciphertext) == "junk"

\* decapSharedSecret: ML-KEM never fails; under the wrong key it yields an
\* unrelated secret (implicit rejection).
decapSharedSecret(myPrivateKey, ciphertext) ==
  IF ciphertext.pk = PublicOf(myPrivateKey) THEN ciphertext.ss ELSE "junk"

\* Spread { ...map, [chatId]: secret }.
WithSecret(map, chatId, secret) ==
  [k \in (DOMAIN map) \cup {chatId} |-> IF k = chatId THEN secret ELSE map[k]]

EmptySecrets == [k \in {} |-> "s1"]

\* Firestore updateDoc(ref, payload): the fields named in the payload are
\* replaced, every other field of the document is left as it is.
updateDoc(old, payload) ==
  [f \in DOMAIN old |-> IF f \in DOMAIN payload THEN payload[f] ELSE old[f]]

\* The fields of a KeyVault document.
VaultFields == {"encryptedPrivateKey", "encryptedSharedSecrets"}

\* ------------------------------------------------------------------ state
VARIABLES
  \* React state of AuthProvider
  currentUser,    \* NULL | Some([uid, email, fake])
  userProfile,    \* NULL | Some([uid, email, duressHash])
  loading,        \* BOOLEAN
  inMemVault,     \* NULL | Some([masterKey, kyberPrivateKey, sharedSecrets])
  isDecoyMode,    \* BOOLEAN
  \* collaborators
  authUser,       \* Firebase Auth: NULL | Some(uid) currently signed in
  credPassword,   \* Firebase Auth: NULL | Some(password) of the account
  usersDoc,       \* Firestore users/{uid}: NULL | Some(profile)
  vaultDoc,       \* Firestore keyVaults/{uid}: NULL | Some(KeyVault)
  authEvents,     \* auth-state notifications not yet delivered (FIFO)
  cbInFlight,     \* onAuthStateChanged callbacks awaiting their getDoc
  \* handlers in flight
  su,             \* signup
  lg,             \* login
  cp,             \* changePassword
  ku,             \* decapAndSaveKey / encapAndSaveKey
  last,           \* what the handler that returned last gave its caller
  nCalls,         \* calls started so far
  \* the conversation chats/{chatId} and the ChatRoom listening to it
  chatKem,        \* keyEncapsulationData: NULL | Some([recipientId, ciphertext])
  hd,             \* snapshot callbacks of the ChatRoom, by arrival number
  peerSecret,     \* the peer's secrets map at this chat: NULL | Some(secret)
  cr,             \* the caller that starts a chat (encap, then publish)
  chatLast,       \* how the snapshot callback that ended last ended
  nSnaps,         \* snapshots delivered so far
  \* decapAndSaveKey / encapAndSaveKey calls that run side by side
  kus,            \* by call number: [pc, op, chat, secret, vault, ct, ret]
  \* a call of a function of lib/firebase.ts on its own
  libCall,        \* [fn, arg]: the function and its string argument
  libOut,         \* NULL while it runs | Some(what it returned or threw)
  \* the messages of chats/{chatId} and the ChatRoom showing them
  store,          \* Firestore: [messages, lastMessage] of the conversation
  view,           \* ChatRoom state: [messages, decryptedMessages, ranWith]
  snd,            \* handleSendMessage in flight: [pc, encryptedText]
  \* the user's own presence: status/{uid} and the usePresence() that sets it
  statusDoc,      \* Realtime Database: [state, onDisconnect] of status/{uid}
  pr              \* the hook: [ranWith, cleanup, pending]

react  == << currentUser, userProfile, loading, inMemVault, isDecoyMode >>
extern == << authUser, credPassword, usersDoc, vaultDoc, authEvents, cbInFlight >>
procs  == << su, lg, cp, ku >>
chat   == << chatKem, hd, peerSecret, cr, chatLast, nSnaps >>
lib    == << libCall, libOut >>
room   == << store, view, snd, statusDoc, pr >>
vars   == << currentUser, userProfile, loading, inMemVault, isDecoyMode,
             authUser, credPassword, usersDoc, vaultDoc, authEvents, cbInFlight,
             su, lg, cp, ku, last, nCalls,
             chatKem, hd, peerSecret, cr, chatLast, nSnaps,
             kus, libCall, libOut, store, view, snd,
             statusDoc, pr >>

\* The session states of the state machine, read off the React state.
DecoyActive     == isDecoyMode
VaultUnlocked   == ~isDecoyMode /\ ~IsNull(inMemVault)
VaultLocked     == ~isDecoyMode /\ IsNull(inMemVault) /\ ~IsNull(currentUser)
Unauthenticated == ~isDecoyMode /\ IsNull(currentUser)

SessionState ==
  IF isDecoyMode THEN "DecoyActive"
  ELSE IF ~IsNull(inMemVault) THEN "VaultUnlocked"
  ELSE IF ~IsNull(currentUser) THEN "VaultLocked"
  ELSE "Unauthenticated"

\* isVaultUnlocked of the context value.
isVaultUnlocked == ~IsNull(inMemVault)

\* {!loading && children}: the children that call the API exist only then.
ChildrenRendered == ~loading

IdleSu == [pc |-> "idle", pw |-> "p1", duress |-> NULL]
IdleLg == [pc |-> "idle", pw |-> "p1", loading |-> FALSE, decoy |-> FALSE,
           rec |-> NULL, trace |-> << >>]
IdleCp == [pc |-> "idle", cur |-> "p1", new |-> "p1", vault |-> NULL,
           fake |-> FALSE, trace |-> << >>]
\* `by` is the snapshot callback awaiting the call, 0 for any other caller.
IdleKu == [pc |-> "idle", op |-> "none", chat |-> "c1", secret |-> "s1",
           vault |-> NULL, by |-> 0]

\* What a returned handler gave its caller: the operation, its result ("ok",
\* "decoy", or the message of the error thrown) and the collaborator calls
\* it made, in order.
Returned(op, res, trace) == [op |-> op, res |-> res, trace |-> trace]
NoReturn == Returned("none", "none", << >>)

firebaseUser == [uid |-> Uid, email |-> Email, fake |-> FALSE]

\* The hard-coded decoy identity of the module (used for no state).
FAKE_USER_ID == "decoy-placeholder-id"
FAKE_USER_PROFILE ==
  [uid |-> FAKE_USER_ID, email |-> "decoy@placeholder.net", duressHash |-> NULL]

\* A snapshot callback: where it stands, the keyEncapsulationData it read,
\* and whether its decapAndSaveKey has returned successfully.
IdleHandler  == [pc |-> "idle", kem |-> NULL, decapped |-> FALSE]
IdleHandlers == [h \in 1..MaxSnapshots |-> IdleHandler]
IdleCr       == [pc |-> "idle", ct |-> NULL]
\* How a callback ended: "noop", "cleared", or the error it logged.
HandlerEnded(res, kem) == [res |-> res, kem |-> kem]

\* Key updates running side by side: none has been called.
IdleUpdate  == [pc |-> "idle", op |-> "none", chat |-> "c1", secret |-> "s1",
                vault |-> NULL, ct |-> NULL, ret |-> NULL]
IdleUpdates == [i \in 1..MaxUpdates |-> IdleUpdate]

\* No function of the library is being called on its own.
NoCall == [fn |-> "none", arg |-> << >>]
NoHandler == HandlerEnded("none", NULL)

\* The conversation before any message was sent.
EmptyStore == [messages |-> << >>, lastMessage |-> NULL]

\* new Map(): a map object is a reference (ref) and its entries; two maps
\* with the same entries are still two objects.
NoEntries == [id \in {} |-> ""]
NewMap(ref, entries) == [ref |-> ref, entries |-> entries]

\* useState([]) / useState(new Map()) of a ChatRoom whose effects have not
\* run yet.
Unmounted == [messages |-> << >>, decryptedMessages |-> NewMap(0, NoEntries),
              ranWith |-> NULL]

\* status/{uid} before anything was written to it.
NoStatus == [state |-> "none", onDisconnect |-> FALSE]

\* usePresence() before its effect ran: nothing to clean up, no onDisconnect
\* registration awaiting its answer.
HookUnmounted == [ranWith |-> NULL, cleanup |-> FALSE, pending |-> 0]

\* No handleSendMessage is in flight.
IdleSnd == [pc |-> "idle", encryptedText |-> NULL, senderId |-> NULL,
            ended |-> "none"]

\* Firebase notifies auth-state observers when the signed-in uid changes.
Notify(before, after) ==
  IF before = after THEN authEvents ELSE Append(authEvents, after)

\* --------------------------------------------------------------- start-up
\* A fresh tab on a fresh installation: nobody signed in, no account, and
\* the initial auth-state notification still to be delivered.
Init ==
  /\ currentUser = NULL /\ userProfile = NULL /\ loading = TRUE
  /\ inMemVault = NULL /\ isDecoyMode = FALSE
  /\ authUser = NULL /\ credPassword = NULL
  /\ usersDoc = NULL /\ vaultDoc = NULL
  /\ authEvents = << NULL >> /\ cbInFlight = 0
  /\ su = IdleSu /\ lg = IdleLg /\ cp = IdleCp /\ ku = IdleKu
  /\ last = NoReturn /\ nCalls = 0
  /\ chatKem = NULL /\ hd = IdleHandlers /\ peerSecret = NULL
  /\ cr = IdleCr /\ chatLast = NoHandler /\ nSnaps = 0
  /\ kus = IdleUpdates /\ libCall = NoCall /\ libOut = NULL
  /\ store = EmptyStore /\ view = Unmounted /\ snd = IdleSnd
  /\ statusDoc = NoStatus /\ pr = HookUnmounted

\* The tab is reloaded: React state and every handler in flight are gone,
\* the Firebase session persists and is announced to the new observer.
Reload ==
  /\ nCalls < MaxCalls
  /\ nCalls' = nCalls + 1
  /\ currentUser' = NULL /\ userProfile' = NULL /\ loading' = TRUE
  /\ inMemVault' = NULL /\ isDecoyMode' = FALSE
  /\ authEvents' = << authUser >> /\ cbInFlight' = 0
  /\ su' = IdleSu /\ lg' = IdleLg /\ cp' = IdleCp /\ ku' = IdleKu
  /\ last' = NoReturn
  /\ UNCHANGED << authUser, credPassword, usersDoc, vaultDoc >>
  /\ UNCHANGED << chat, kus, lib, room >>

\* ------------------------------------------------- onAuthStateChanged
\* First half of the callback: up to `await getDoc` (user) or to the end
\* (null).
AuthCallbackStart ==
  /\ authEvents # << >>
  /\ authEvents' = Tail(authEvents)
  /\ IF ~IsNull(Head(authEvents))
       THEN /\ loading' = TRUE
            /\ currentUser' = Some(firebaseUser)
            /\ cbInFlight' = cbInFlight + 1
            /\ UNCHANGED << userProfile, inMemVault, isDecoyMode >>
       ELSE /\ currentUser' = NULL
            /\ userProfile' = NULL
            /\ inMemVault' = NULL
            /\ isDecoyMode' = FALSE
            /\ loading' = FALSE
            /\ UNCHANGED cbInFlight
  /\ UNCHANGED << authUser, credPassword, usersDoc, vaultDoc, procs, last, nCalls >>
  /\ UNCHANGED << chat, kus, lib, room >>

\* Second half, after getDoc(users/{uid}) resolved.
AuthCallbackFinish ==
  /\ cbInFlight > 0
  /\ cbInFlight' = cbInFlight - 1
  /\ userProfile' = IF ~IsNull(usersDoc) THEN usersDoc ELSE userProfile
  /\ isDecoyMode' = FALSE
  /\ loading' = FALSE
  /\ UNCHANGED << currentUser, inMemVault, authUser, credPassword, usersDoc,
                  vaultDoc, authEvents, procs, last, nCalls >>
  /\ UNCHANGED << chat, kus, lib, room >>

\* ------------------------------------------------------------------ signup
\* signup(email, password, username, duressPassword?) is called.
SignupCall(password, duress) ==
  /\ ChildrenRendered /\ su.pc = "idle" /\ nCalls < MaxCalls
  /\ nCalls' = nCalls + 1
  /\ loading' = TRUE
  /\ su' = [pc |-> "create", pw |-> password, duress |-> duress]
  /\ UNCHANGED << currentUser, userProfile, inMemVault, isDecoyMode, extern,
                  lg, cp, ku, last >>
  /\ UNCHANGED << chat, kus, lib, room >>

\* The throw of signup: catch rethrows, finally setLoading(false).
SignupThrow(err) ==
  /\ su' = IdleSu
  /\ last' = Returned("signup", err, << >>)
  /\ loading' = FALSE

\* Username query, then createUserWithEmailAndPassword.
SignupCreate ==
  /\ su.pc = "create"
  /\ IF ~IsNull(usersDoc)
       THEN /\ SignupThrow("Username is already taken.")
            /\ UNCHANGED << authUser, credPassword, authEvents >>
       ELSE IF ~IsNull(credPassword)
       THEN /\ SignupThrow("auth/email-already-in-use")
            /\ UNCHANGED << authUser, credPassword, authEvents >>
       ELSE /\ credPassword' = Some(su.pw)
            /\ authUser' = Some(Uid)
            /\ authEvents' = Notify(authUser, Some(Uid))
            /\ su' = [su EXCEPT !.pc = "writeProfile"]
            /\ UNCHANGED << loading, last >>
  /\ UNCHANGED << currentUser, userProfile, inMemVault, isDecoyMode, usersDoc,
                  vaultDoc, cbInFlight, lg, cp, ku, nCalls >>
  /\ UNCHANGED << chat, kus, lib, room >>

SignupProfile ==
  [uid |-> Uid, email |-> Email,
   duressHash |-> IF IsNull(su.duress) THEN NULL
                  ELSE hashPasswordForStorage(Get(su.duress))]

SignupMasterKey == deriveMasterKey(su.pw, getSaltForUser(Email))

SignupVault ==
  [encryptedPrivateKey |->
     encryptWithAES(SignupMasterKey, generateKyberKeyPair.privateKey),
   encryptedSharedSecrets |->
     encryptWithAES(SignupMasterKey, JSONstringify(EmptySecrets))]

\* setDoc(users/{uid}, profile): written, or the write fails.
SignupWriteProfile ==
  /\ su.pc = "writeProfile"
  /\ \/ /\ usersDoc' = Some(SignupProfile)
        /\ su' = [su EXCEPT !.pc = "writeVault"]
        /\ UNCHANGED << loading, last >>
     \/ /\ SignupThrow("firestore/unavailable")
        /\ UNCHANGED usersDoc
  /\ UNCHANGED << currentUser, userProfile, inMemVault, isDecoyMode, authUser,
                  credPassword, vaultDoc, authEvents, cbInFlight, lg, cp, ku,
                  nCalls >>
  /\ UNCHANGED << chat, kus, lib, room >>

\* setDoc(keyVaults/{uid}, vault): both fields in one write, or it fails.
SignupWriteVault ==
  /\ su.pc = "writeVault"
  /\ \/ /\ vaultDoc' = Some(SignupVault)
        /\ su' = [su EXCEPT !.pc = "finish"]
        /\ UNCHANGED << loading, last >>
     \/ /\ SignupThrow("firestore/unavailable")
        /\ UNCHANGED vaultDoc
  /\ UNCHANGED << currentUser, userProfile, inMemVault, isDecoyMode, authUser,
                  credPassword, usersDoc, authEvents, cbInFlight, lg, cp, ku,
                  nCalls >>
  /\ UNCHANGED << chat, kus, lib, room >>

\* After the last await: install the state; finally setLoading(false).
SignupFinish ==
  /\ su.pc = "finish"
  /\ currentUser' = Some(firebaseUser)
  /\ userProfile' = Some(SignupProfile)
  /\ inMemVault' = Some([masterKey |-> SignupMasterKey,
                         kyberPrivateKey |-> generateKyberKeyPair.privateKey,
                         sharedSecrets |-> EmptySecrets])
  /\ loading' = FALSE
  /\ su' = IdleSu
  /\ last' = Returned("signup", "ok", << >>)
  /\ UNCHANGED << isDecoyMode, extern, lg, cp, ku, nCalls >>
  /\ UNCHANGED << chat, kus, lib, room >>

\* A logout that signs out at the identity provider in decoy mode too.
logout_AlwaysSignsOut(decoy) ==
  /\ authUser' = NULL
  /\ authEvents' = Notify(authUser, NULL)
  /\ IF decoy
       THEN /\ currentUser' = NULL /\ userProfile' = NULL
            /\ inMemVault' = NULL /\ isDecoyMode' = FALSE
       ELSE UNCHANGED << currentUser, userProfile, inMemVault, isDecoyMode >>

\* ------------------------------------------------------------------ logout
\* The body of logout() for a given isDecoyMode: in decoy mode a manual
\* reset; otherwise signOut(auth), whose auth-state notification clears the
\* React state later.
logout(decoy) ==
  IF decoy
    THEN /\ currentUser' = NULL /\ userProfile' = NULL
         /\ inMemVault' = NULL /\ isDecoyMode' = FALSE
         /\ UNCHANGED << authUser, authEvents >>
    ELSE /\ authUser' = NULL
         /\ authEvents' = Notify(authUser, NULL)
         /\ UNCHANGED << currentUser, userProfile, inMemVault, isDecoyMode >>

\* logout() is called (a call that has nothing to sign out changes nothing
\* and is left to stuttering).
Logout ==
  /\ ChildrenRendered /\ nCalls < MaxCalls
  /\ isDecoyMode \/ ~IsNull(authUser)
  /\ nCalls' = nCalls + 1
  /\ logout(isDecoyMode)
  /\ last' = Returned("logout", "ok",
                      IF isDecoyMode THEN << >> ELSE << "signOut" >>)
  /\ UNCHANGED << loading, credPassword, usersDoc, vaultDoc, cbInFlight,
                  procs >>
  /\ UNCHANGED << chat, kus, lib, room >>

\* ------------------------------------------------------------------- login
\* login(email, password) is called: setLoading(true); the closure keeps
\* the `loading` and (through `logout`) the `isDecoyMode` of this render.
LoginCall(password) ==
  /\ ChildrenRendered /\ lg.pc = "idle" /\ nCalls < MaxCalls
  /\ nCalls' = nCalls + 1
  /\ loading' = TRUE
  /\ lg' = [IdleLg EXCEPT !.pc = "duress", !.pw = password,
                          !.loading = loading, !.decoy = isDecoyMode]
  /\ UNCHANGED << currentUser, userProfile, inMemVault, isDecoyMode, extern,
                  su, cp, ku, last >>
  /\ UNCHANGED << chat, kus, lib, room >>

\* A duress check that stands back when the password is the real one.
DuressMatch_UnlessRealCredential(password) ==
  /\ ~IsNull(usersDoc)
  /\ ~IsNull(Get(usersDoc).duressHash)
  /\ hashPasswordForStorage(password) = Get(usersDoc).duressHash
  /\ credPassword # Some(password)

\* STEP 1, duress check: profile by e-mail, hash, compare.
DuressMatch(password) ==
  /\ ~IsNull(usersDoc)
  /\ ~IsNull(Get(usersDoc).duressHash)
  /\ hashPasswordForStorage(password) = Get(usersDoc).duressHash

LoginDuressTrace ==
  IF IsNull(usersDoc) THEN << "findByEmail" >>
  ELSE IF IsNull(Get(usersDoc).duressHash) THEN << "findByEmail" >>
  ELSE << "findByEmail", "hash" >>

\* The duress branch taken: inject the decoy state and return.
LoginEnterDecoy ==
  /\ currentUser' = Some([uid |-> Get(usersDoc).uid,
                          email |-> Get(usersDoc).email, fake |-> TRUE])
  /\ userProfile' = usersDoc
  /\ inMemVault' = NULL
  /\ isDecoyMode' = TRUE
  /\ loading' = FALSE
  /\ lg' = IdleLg
  /\ last' = Returned("login", "decoy", LoginDuressTrace)

\* A duress branch without its `return`: the decoy state is injected and
\* the login goes on to the real sign-in.
LoginDuressCheck_NoReturn ==
  /\ lg.pc = "duress"
  /\ IF DuressMatch(lg.pw)
       THEN /\ currentUser' = Some([uid |-> Get(usersDoc).uid,
                                    email |-> Get(usersDoc).email,
                                    fake |-> TRUE])
            /\ userProfile' = usersDoc
            /\ inMemVault' = NULL
            /\ isDecoyMode' = TRUE
            /\ loading' = FALSE
            /\ lg' = [lg EXCEPT !.pc = "signIn", !.trace = LoginDuressTrace]
            /\ UNCHANGED last
       ELSE /\ lg' = [lg EXCEPT !.pc = "signIn", !.trace = LoginDuressTrace]
            /\ UNCHANGED << react, last >>
  /\ UNCHANGED << extern, su, cp, ku, nCalls >>
  /\ UNCHANGED << chat, kus, lib, room >>

LoginDuressCheck ==
  /\ lg.pc = "duress"
  /\ \/ \* the query answers
        IF DuressMatch(lg.pw)
          THEN LoginEnterDecoy
          ELSE /\ lg' = [lg EXCEPT !.pc = "signIn", !.trace = LoginDuressTrace]
               /\ UNCHANGED << react, last >>
     \/ \* the query throws: caught, "proceeding to real login"
        /\ lg' = [lg EXCEPT !.pc = "signIn", !.trace = << "findByEmail" >>]
        /\ UNCHANGED << react, last >>
  /\ UNCHANGED << extern, su, cp, ku, nCalls >>
  /\ UNCHANGED << chat, kus, lib, room >>

\* The throw of STEP 2: catch rethrows; finally `if (loading)` reads the
\* closure's loading.
LoginThrow(err, trace) ==
  /\ lg' = IdleLg
  /\ last' = Returned("login", err, trace)
  /\ loading' = IF lg.loading THEN FALSE ELSE loading

\* STEP 2: signInWithEmailAndPassword.
LoginSignIn ==
  /\ lg.pc = "signIn"
  /\ IF credPassword = Some(lg.pw)
       THEN /\ authUser' = Some(Uid)
            /\ authEvents' = Notify(authUser, Some(Uid))
            /\ lg' = [lg EXCEPT !.pc = "readVault",
                                !.trace = Append(lg.trace, "signIn")]
            /\ UNCHANGED << loading, last >>
       ELSE /\ LoginThrow("auth/invalid-credential",
                          Append(lg.trace, "signIn"))
            /\ UNCHANGED << authUser, authEvents >>
  /\ UNCHANGED << currentUser, userProfile, inMemVault, isDecoyMode,
                  credPassword, usersDoc, vaultDoc, cbInFlight, su, cp, ku,
                  nCalls >>
  /\ UNCHANGED << chat, kus, lib, room >>

LoginMasterKey == deriveMasterKey(lg.pw, getSaltForUser(Email))

\* getSalt, deriveMasterKey, getDoc(users), getDoc(keyVaults).
LoginReadVault ==
  /\ lg.pc = "readVault"
  /\ IF IsNull(vaultDoc)
       THEN LoginThrow("Key vault not found.",
                       lg.trace \o << "derive", "readProfile", "readVault" >>)
       ELSE /\ lg' = [lg EXCEPT !.pc = "decrypt", !.rec = vaultDoc,
                        !.trace = lg.trace \o << "derive", "readProfile",
                                                 "readVault" >>]
            /\ UNCHANGED << loading, last >>
  /\ UNCHANGED << currentUser, userProfile, inMemVault, isDecoyMode, extern,
                  su, cp, ku, nCalls >>
  /\ UNCHANGED << chat, kus, lib, room >>

\* A try that would only notice a failure of the secrets field.
LoginDecryptOk_SecretsOnly ==
  CanDecrypt(LoginMasterKey, Get(lg.rec).encryptedSharedSecrets)

\* The try around the two decryptions and JSON.parse.
LoginDecryptOk ==
  /\ CanDecrypt(LoginMasterKey, Get(lg.rec).encryptedPrivateKey)
  /\ CanDecrypt(LoginMasterKey, Get(lg.rec).encryptedSharedSecrets)

LoginDecryptedVault ==
  [masterKey |-> LoginMasterKey,
   kyberPrivateKey |->
     decryptWithAES(LoginMasterKey, Get(lg.rec).encryptedPrivateKey),
   sharedSecrets |->
     JSONparse(decryptWithAES(LoginMasterKey,
                              Get(lg.rec).encryptedSharedSecrets))]

\* Decrypt both fields; on success load the real state.
LoginDecrypt ==
  /\ lg.pc = "decrypt"
  /\ IF LoginDecryptOk
       THEN /\ currentUser' = Some(firebaseUser)
            /\ userProfile' = usersDoc
            /\ inMemVault' = Some(LoginDecryptedVault)
            /\ isDecoyMode' = FALSE
            /\ loading' = IF lg.loading THEN FALSE ELSE loading
            /\ lg' = IdleLg
            /\ last' = Returned("login", "ok", Append(lg.trace, "decrypt"))
       ELSE /\ lg' = [lg EXCEPT !.pc = "logout",
                                !.trace = Append(lg.trace, "decrypt")]
            /\ UNCHANGED << react, last >>
  /\ UNCHANGED << extern, su, cp, ku, nCalls >>
  /\ UNCHANGED << chat, kus, lib, room >>

\* catch of the decryption: await logout() of the closure, then throw.
LoginLogout ==
  /\ lg.pc = "logout"
  /\ logout(lg.decoy)
  /\ LoginThrow("Invalid password.", Append(lg.trace, "logout"))
  /\ UNCHANGED << credPassword, usersDoc, vaultDoc, cbInFlight, su, cp, ku,
                  nCalls >>
  /\ UNCHANGED << chat, kus, lib, room >>

\* --------------------------------------------------------- changePassword
\* The two guards of changePassword, run before its first await: the error
\* thrown, or "pass".  A call that throws here has changed nothing.
changePasswordGuard ==
  IF IsNull(currentUser) \/ IsNull(inMemVault)
    THEN "User not fully authenticated."
  ELSE IF isDecoyMode THEN "Cannot change password in decoy mode."
  ELSE "pass"

\* changePassword(currentPassword, newPassword) is called and passes the
\* guards; the closure's currentUser and inMemVault are what every later
\* line reads.
ChangePasswordCall(currentPassword, newPassword) ==
  /\ ChildrenRendered /\ cp.pc = "idle" /\ nCalls < MaxCalls
  /\ changePasswordGuard = "pass"
  /\ nCalls' = nCalls + 1
  /\ cp' = [IdleCp EXCEPT !.pc = "reauth", !.cur = currentPassword,
                          !.new = newPassword, !.vault = inMemVault,
                          !.fake = Get(currentUser).fake]
  /\ UNCHANGED << react, extern, su, lg, ku, last >>
  /\ UNCHANGED << chat, kus, lib, room >>

ChangePasswordReturn(res, step) ==
  /\ cp' = IdleCp
  /\ last' = Returned("changePassword", res, Append(cp.trace, step))

\* A rotation that goes on whatever the re-authentication said.
ChangePasswordReauth_Unchecked ==
  /\ cp.pc = "reauth"
  /\ cp' = [cp EXCEPT !.pc = "persist", !.trace = Append(cp.trace, "reauth")]
  /\ UNCHANGED << react, extern, su, lg, ku, nCalls, last >>
  /\ UNCHANGED << chat, kus, lib, room >>

\* reauthenticateWithCredential: outside the try, its error propagates.
ChangePasswordReauth ==
  /\ cp.pc = "reauth"
  /\ IF credPassword = Some(cp.cur) /\ ~cp.fake
       THEN /\ cp' = [cp EXCEPT !.pc = "persist",
                                !.trace = Append(cp.trace, "reauth")]
            /\ UNCHANGED last
       ELSE ChangePasswordReturn("auth/invalid-credential", "reauth")
  /\ UNCHANGED << react, extern, su, lg, ku, nCalls >>
  /\ UNCHANGED << chat, kus, lib, room >>

NewMasterKey == deriveMasterKey(cp.new, getSaltForUser(Email))

ReencryptedVault ==
  [encryptedPrivateKey |->
     encryptWithAES(NewMasterKey, Get(cp.vault).kyberPrivateKey),
   encryptedSharedSecrets |->
     encryptWithAES(NewMasterKey, JSONstringify(Get(cp.vault).sharedSecrets))]

RotationError == "Vault re-encryption failed. Password not changed."

\* A rotation that replaces the in-memory master key as soon as the record
\* is written, before the credential update.
ChangePasswordPersist_SwapEarly ==
  /\ cp.pc = "persist"
  /\ ~IsNull(vaultDoc)
  /\ vaultDoc' = Some(ReencryptedVault)
  /\ inMemVault' = Some([Get(cp.vault) EXCEPT !.masterKey = NewMasterKey])
  /\ cp' = [cp EXCEPT !.pc = "credential",
              !.trace = cp.trace \o << "derive", "encrypt", "persist" >>]
  /\ UNCHANGED << currentUser, userProfile, loading, isDecoyMode, last,
                  authUser, credPassword, usersDoc, authEvents, cbInFlight,
                  su, lg, ku, nCalls >>
  /\ UNCHANGED << chat, kus, lib, room >>

\* derive, encrypt both fields, updateDoc(keyVaults/{uid}, both fields).
ChangePasswordPersist ==
  /\ cp.pc = "persist"
  /\ \/ /\ ~IsNull(vaultDoc)
        /\ vaultDoc' = Some(updateDoc(Get(vaultDoc), ReencryptedVault))
        /\ cp' = [cp EXCEPT !.pc = "credential",
                    !.trace = cp.trace \o << "derive", "encrypt", "persist" >>]
        /\ UNCHANGED last
     \/ \* the write fails (no such document, network, rules)
        /\ ChangePasswordReturn(RotationError, "persist-failed")
        /\ UNCHANGED vaultDoc
  /\ UNCHANGED << react, authUser, credPassword, usersDoc, authEvents,
                  cbInFlight, su, lg, ku, nCalls >>
  /\ UNCHANGED << chat, kus, lib, room >>

\* A rotation whose catch block drops the vault when the credential update
\* is rejected.
ChangePasswordCredential_LockOnFailure ==
  /\ cp.pc = "credential"
  /\ \/ /\ credPassword' = Some(cp.new)
        /\ cp' = [cp EXCEPT !.pc = "swap",
                            !.trace = Append(cp.trace, "credential")]
        /\ UNCHANGED << last, react >>
     \/ /\ ChangePasswordReturn(RotationError, "credential-failed")
        /\ inMemVault' = NULL
        /\ UNCHANGED << credPassword, currentUser, userProfile, loading,
                        isDecoyMode >>
  /\ UNCHANGED << authUser, usersDoc, vaultDoc, authEvents, cbInFlight,
                  su, lg, ku, nCalls >>
  /\ UNCHANGED << chat, kus, lib, room >>

\* updatePassword(currentUser, newPassword) at the identity provider.
ChangePasswordCredential ==
  /\ cp.pc = "credential"
  /\ \/ /\ credPassword' = Some(cp.new)
        /\ cp' = [cp EXCEPT !.pc = "swap",
                            !.trace = Append(cp.trace, "credential")]
        /\ UNCHANGED last
     \/ \* rejected (weak password, requires-recent-login, network)
        /\ ChangePasswordReturn(RotationError, "credential-failed")
        /\ UNCHANGED credPassword
  /\ UNCHANGED << react, authUser, usersDoc, vaultDoc, authEvents, cbInFlight,
                  su, lg, ku, nCalls >>
  /\ UNCHANGED << chat, kus, lib, room >>

\* setInMemVault({ ...inMemVault, masterKey: newMasterKey }) of the closure.
ChangePasswordSwap ==
  /\ cp.pc = "swap"
  /\ inMemVault' = Some([Get(cp.vault) EXCEPT !.masterKey = NewMasterKey])
  /\ ChangePasswordReturn("ok", "swap")
  /\ UNCHANGED << currentUser, userProfile, loading, isDecoyMode, extern,
                  su, lg, ku, nCalls >>
  /\ UNCHANGED << chat, kus, lib, room >>

\* Guards that test only the decoy flag.
keyUpdateGuard_NoVaultCheck ==
  IF isDecoyMode THEN "Cannot use crypto in decoy mode." ELSE "pass"

\* ------------------------------------- decapAndSaveKey / encapAndSaveKey
\* The two guards both functions start with: the error thrown, or "pass".
keyUpdateGuard ==
  IF IsNull(inMemVault) \/ IsNull(currentUser) THEN "Vault locked."
  ELSE IF isDecoyMode THEN "Cannot use crypto in decoy mode."
  ELSE "pass"

\* Past the guards both run the same lines once the secret is known: the
\* secrets map of the closure plus the new entry, encrypted under the
\* closure's master key.
KeyUpdateCall(op, chatId, secret) ==
  /\ ChildrenRendered /\ ku.pc = "idle" /\ nCalls < MaxCalls
  /\ keyUpdateGuard = "pass"
  /\ nCalls' = nCalls + 1
  /\ ku' = [pc |-> "persist", op |-> op, chat |-> chatId, secret |-> secret,
            vault |-> inMemVault, by |-> 0]
  /\ UNCHANGED << react, extern, su, lg, cp, last, chat, kus, lib, room >>

\* decapAndSaveKey(chatId, ciphertext): the recipient's side.
DecapAndSaveKeyCall(chatId, ciphertext) ==
  /\ ~IsNull(inMemVault)
  /\ KeyUpdateCall("decapAndSaveKey", chatId,
       decapSharedSecret(Get(inMemVault).kyberPrivateKey, ciphertext))

\* encapAndSaveKey(chatId, recipientPublicKey): the initiator's side; ss is
\* the fresh secret of this encapsulation.
EncapAndSaveKeyCall(chatId, recipientPublicKey, ss) ==
  KeyUpdateCall("encapAndSaveKey", chatId,
    encapSharedSecret(recipientPublicKey, ss).sharedSecret)

newSecretsMap == WithSecret(Get(ku.vault).sharedSecrets, ku.chat, ku.secret)

\* The payload of the key update's write: the one field it names.
KeyUpdateWrite ==
  [encryptedSharedSecrets |->
     encryptWithAES(Get(ku.vault).masterKey, JSONstringify(newSecretsMap))]

\* A snapshot callback that goes on to its clear whether or not the key
\* update succeeded.
KeyUpdateReturns_ClearsAnyway(ok) ==
  /\ IF ku.by > 0
       THEN /\ hd' = [hd EXCEPT ![ku.by].pc = "clear",
                                 ![ku.by].decapped = ok]
            /\ UNCHANGED chatLast
       ELSE UNCHANGED << hd, chatLast >>
  /\ IF ku.by < 0
       THEN cr' = IF ok THEN [cr EXCEPT !.pc = "publish"] ELSE IdleCr
       ELSE UNCHANGED cr
  /\ UNCHANGED << chatKem, peerSecret, nSnaps >>

\* The key update returns to whoever awaits it: a snapshot callback goes
\* on to its clear (or to its catch), the chat starter to its publish (or
\* the error propagates); any other caller is not modelled further.
KeyUpdateReturns(ok) ==
  /\ IF ku.by > 0
       THEN IF ok
              THEN /\ hd' = [hd EXCEPT ![ku.by].pc = "clear",
                                        ![ku.by].decapped = TRUE]
                   /\ UNCHANGED chatLast
              ELSE /\ hd' = [hd EXCEPT ![ku.by].pc = "done"]
                   /\ chatLast' = HandlerEnded("firestore/unavailable",
                                               hd[ku.by].kem)
       ELSE UNCHANGED << hd, chatLast >>
  /\ IF ku.by < 0
       THEN cr' = IF ok THEN [cr EXCEPT !.pc = "publish"] ELSE IdleCr
       ELSE UNCHANGED cr
  /\ UNCHANGED << chatKem, peerSecret, nSnaps >>

\* A key update that puts the entry into the in-memory map first and
\* persists afterwards.
KeyUpdatePersist_MemoryFirst ==
  /\ ku.pc = "persist"
  /\ inMemVault' = IF IsNull(inMemVault) THEN NULL
                   ELSE Some([Get(inMemVault) EXCEPT
                                !.sharedSecrets = newSecretsMap])
  /\ \/ /\ ~IsNull(vaultDoc)
        /\ vaultDoc' = Some(updateDoc(Get(vaultDoc), KeyUpdateWrite))
        /\ ku' = [ku EXCEPT !.pc = "setVault"]
        /\ UNCHANGED << last, chat >>
     \/ /\ ku' = IdleKu
        /\ last' = Returned(ku.op, "firestore/unavailable", << >>)
        /\ KeyUpdateReturns(FALSE)
        /\ UNCHANGED vaultDoc
  /\ UNCHANGED << currentUser, userProfile, loading, isDecoyMode, authUser,
                  credPassword, usersDoc, authEvents, cbInFlight, su, lg, cp,
                  nCalls, kus, lib, room >>

\* updateDoc(keyVaults/{uid}, { encryptedSharedSecrets }).
KeyUpdatePersist ==
  /\ ku.pc = "persist"
  /\ \/ /\ ~IsNull(vaultDoc)
        /\ vaultDoc' = Some(updateDoc(Get(vaultDoc), KeyUpdateWrite))
        /\ ku' = [ku EXCEPT !.pc = "setVault"]
        /\ UNCHANGED << last, chat >>
     \/ /\ ku' = IdleKu
        /\ last' = Returned(ku.op, "firestore/unavailable", << >>)
        /\ KeyUpdateReturns(FALSE)
        /\ UNCHANGED vaultDoc
  /\ UNCHANGED << react, authUser, credPassword, usersDoc, authEvents,
                  cbInFlight, su, lg, cp, nCalls, kus, lib, room >>

\* A final update that writes the vault of the closure with the new map.
KeyUpdateFinish_FromClosure ==
  /\ ku.pc = "setVault"
  /\ inMemVault' = Some([Get(ku.vault) EXCEPT !.sharedSecrets = newSecretsMap])
  /\ ku' = IdleKu
  /\ last' = Returned(ku.op, "ok", << >>)
  /\ KeyUpdateReturns(TRUE)
  /\ UNCHANGED << currentUser, userProfile, loading, isDecoyMode, extern,
                  su, lg, cp, nCalls, kus, lib, room >>

\* setInMemVault((v) => v ? { ...v, sharedSecrets: newSecretsMap } : null).
KeyUpdateFinish ==
  /\ ku.pc = "setVault"
  /\ inMemVault' = IF IsNull(inMemVault) THEN NULL
                   ELSE Some([Get(inMemVault) EXCEPT
                                !.sharedSecrets = newSecretsMap])
  /\ ku' = IdleKu
  /\ last' = Returned(ku.op, "ok", << >>)
  /\ KeyUpdateReturns(TRUE)
  /\ UNCHANGED << currentUser, userProfile, loading, isDecoyMode, extern,
                  su, lg, cp, nCalls, kus, lib, room >>

\* -------------------------------------------------------------- getChatKey
importSharedSecret(sharedSecret) == << "aes-gcm", sharedSecret >>

\* getChatKey(chatId): reads the state, changes nothing; NULL is the
\* `null` it resolves with.
getChatKey(chatId) ==
  IF isDecoyMode THEN NULL
  ELSE IF IsNull(inMemVault) THEN NULL
  ELSE IF chatId \notin DOMAIN Get(inMemVault).sharedSecrets THEN NULL
  ELSE Some(importSharedSecret(Get(inMemVault).sharedSecrets[chatId]))

\* ------------------------------------------------- ChatRoom: key exchange
\* A callback that reads kemData.recipientId of a missing payload and
\* lands in an error.
SnapshotIgnored_Throws(h) ==
  /\ hd' = [hd EXCEPT ![h] = [pc |-> "done", kem |-> chatKem,
                              decapped |-> FALSE]]
  /\ chatLast' = HandlerEnded("TypeError", chatKem)
  /\ UNCHANGED ku

\* The callback does nothing with this snapshot: no payload, or a payload
\* addressed to somebody else.
SnapshotIgnored(h) ==
  /\ hd' = [hd EXCEPT ![h] = [pc |-> "done", kem |-> chatKem,
                              decapped |-> FALSE]]
  /\ chatLast' = HandlerEnded("noop", chatKem)
  /\ UNCHANGED ku

\* onSnapshot(chats/{chatId}) calls back with the document: on subscribing,
\* and whenever the document changed.  A payload addressed to the current
\* user is handed to decapAndSaveKey; its guards may throw into the catch.
Snapshot ==
  /\ ChildrenRendered /\ ~IsNull(currentUser) /\ nSnaps < MaxSnapshots
  /\ nSnaps' = nSnaps + 1
  /\ LET h == nSnaps + 1 IN
       IF IsNull(chatKem) THEN SnapshotIgnored(h)
       ELSE IF Get(chatKem).recipientId # Get(currentUser).uid
         THEN SnapshotIgnored(h)
       ELSE IF keyUpdateGuard # "pass"
         THEN /\ hd' = [hd EXCEPT ![h] = [pc |-> "done", kem |-> chatKem,
                                          decapped |-> FALSE]]
              /\ chatLast' = HandlerEnded(keyUpdateGuard, chatKem)
              /\ UNCHANGED ku
         ELSE /\ ku.pc = "idle"
              /\ ku' = [pc |-> "persist", op |-> "decapAndSaveKey",
                        chat |-> "c1",
                        secret |-> decapSharedSecret(
                                     Get(inMemVault).kyberPrivateKey,
                                     Get(chatKem).ciphertext),
                        vault |-> inMemVault, by |-> h]
              /\ hd' = [hd EXCEPT ![h] = [pc |-> "decap", kem |-> chatKem,
                                          decapped |-> FALSE]]
              /\ UNCHANGED chatLast
  /\ UNCHANGED << react, extern, su, lg, cp, last, nCalls, chatKem,
                  peerSecret, cr, kus, lib, room >>

\* updateDoc(doc.ref, { keyEncapsulationData: null }), or the write fails
\* into the catch.
HandlerClear ==
  \E h \in 1..MaxSnapshots :
    /\ hd[h].pc = "clear"
    /\ \/ /\ chatKem' = NULL
          /\ chatLast' = HandlerEnded("cleared", hd[h].kem)
       \/ /\ UNCHANGED chatKem
          /\ chatLast' = HandlerEnded("firestore/unavailable", hd[h].kem)
    /\ hd' = [hd EXCEPT ![h].pc = "done"]
    /\ UNCHANGED << react, extern, procs, last, nCalls, peerSecret, cr,
                    nSnaps, kus, lib, room >>

\* The payload an initiator publishes for a recipient.
KeyEncapsulationData(recipientId, ciphertext) ==
  [recipientId |-> recipientId, ciphertext |-> ciphertext]

\* The peer starts the chat: it encapsulates against a public key, keeps
\* the secret and publishes the ciphertext for this user.
PeerPublish(recipientPublicKey, ss) ==
  /\ IsNull(chatKem) /\ IsNull(peerSecret) /\ cr.pc = "idle"
  /\ peerSecret' = Some(encapSharedSecret(recipientPublicKey, ss).sharedSecret)
  /\ chatKem' = Some(KeyEncapsulationData(Uid,
                       encapSharedSecret(recipientPublicKey, ss).ciphertext))
  /\ UNCHANGED << react, extern, procs, last, nCalls, hd, cr, chatLast,
                  nSnaps, kus, lib, room >>

\* This user starts the chat: encapAndSaveKey(chatId, recipientPublicKey),
\* whose ciphertext the caller will publish.
StartChat(recipientPublicKey, ss) ==
  /\ ChildrenRendered /\ nCalls < MaxCalls
  /\ cr.pc = "idle" /\ IsNull(chatKem) /\ IsNull(peerSecret)
  /\ ku.pc = "idle" /\ keyUpdateGuard = "pass"
  /\ nCalls' = nCalls + 1
  /\ ku' = [pc |-> "persist", op |-> "encapAndSaveKey", chat |-> "c1",
            secret |-> encapSharedSecret(recipientPublicKey, ss).sharedSecret,
            vault |-> inMemVault, by |-> -1]
  /\ cr' = [pc |-> "encap",
            ct |-> Some(encapSharedSecret(recipientPublicKey, ss).ciphertext)]
  /\ UNCHANGED << react, extern, su, lg, cp, last, chatKem, hd, peerSecret,
                  chatLast, nSnaps, kus, lib, room >>

\* The caller publishes { recipientId, ciphertext } on the chat document.
Publish ==
  /\ cr.pc = "publish"
  /\ chatKem' = Some(KeyEncapsulationData(Peer, Get(cr.ct)))
  /\ cr' = IdleCr
  /\ UNCHANGED << react, extern, procs, last, nCalls, hd, peerSecret,
                  chatLast, nSnaps, kus, lib, room >>

\* The peer's ChatRoom receives the payload addressed to it: decapsulates
\* with its private key, stores the secret, clears the payload.
PeerSnapshot ==
  /\ ~IsNull(chatKem) /\ Get(chatKem).recipientId = Peer
  /\ peerSecret' = Some(decapSharedSecret(PeerPrivateKey,
                                          Get(chatKem).ciphertext))
  /\ chatKem' = NULL
  /\ chatLast' = HandlerEnded("peer-cleared", chatKem)
  /\ UNCHANGED << react, extern, procs, last, nCalls, hd, cr, nSnaps,
                  kus, lib, room >>

\* A session with the vault unlocked: signup(email, p1, username, p2) has
\* completed and its auth-state notification has been handled.
ChatInit ==
  /\ currentUser = Some(firebaseUser)
  /\ userProfile = Some([uid |-> Uid, email |-> Email,
                         duressHash |-> hashPasswordForStorage("p2")])
  /\ loading = FALSE
  /\ inMemVault = Some([masterKey |->
                          deriveMasterKey("p1", getSaltForUser(Email)),
                        kyberPrivateKey |-> generateKyberKeyPair.privateKey,
                        sharedSecrets |-> EmptySecrets])
  /\ isDecoyMode = FALSE
  /\ authUser = Some(Uid) /\ credPassword = Some("p1")
  /\ usersDoc = userProfile
  /\ vaultDoc = Some(
       [encryptedPrivateKey |->
          encryptWithAES(deriveMasterKey("p1", getSaltForUser(Email)),
                         generateKyberKeyPair.privateKey),
        encryptedSharedSecrets |->
          encryptWithAES(deriveMasterKey("p1", getSaltForUser(Email)),
                         JSONstringify(EmptySecrets))])
  /\ authEvents = << >> /\ cbInFlight = 0
  /\ su = IdleSu /\ lg = IdleLg /\ cp = IdleCp /\ ku = IdleKu
  /\ last = Returned("signup", "ok", << >>) /\ nCalls = 1
  /\ chatKem = NULL /\ hd = IdleHandlers /\ peerSecret = NULL
  /\ cr = IdleCr /\ chatLast = NoHandler /\ nSnaps = 0
  /\ kus = IdleUpdates /\ libCall = NoCall /\ libOut = NULL
  /\ store = EmptyStore /\ view = Unmounted /\ snd = IdleSnd
  /\ statusDoc = NoStatus /\ pr = HookUnmounted

ChatNext ==
  \/ \E pk \in PeerTargets, ss \in Secrets : PeerPublish(pk, ss)
  \/ \E pk \in {PeerPublicKey, "pk9"}, ss \in Secrets : StartChat(pk, ss)
  \/ Publish
  \/ PeerSnapshot
  \/ Snapshot
  \/ KeyUpdatePersist
  \/ KeyUpdateFinish
  \/ HandlerClear
  \/ Logout
  \/ AuthCallbackStart

ChatSpec == ChatInit /\ [][ChatNext]_vars

\* The account of ChatInit with nobody's handler running.
AccountAtRest ==
  /\ credPassword = Some("p1")
  /\ usersDoc = Some([uid |-> Uid, email |-> Email,
                      duressHash |-> hashPasswordForStorage("p2")])
  /\ vaultDoc = Some(
       [encryptedPrivateKey |->
          encryptWithAES(deriveMasterKey("p1", getSaltForUser(Email)),
                         generateKyberKeyPair.privateKey),
        encryptedSharedSecrets |->
          encryptWithAES(deriveMasterKey("p1", getSaltForUser(Email)),
                         JSONstringify(EmptySecrets))])
  /\ authEvents = << >> /\ cbInFlight = 0
  /\ su = IdleSu /\ lg = IdleLg /\ cp = IdleCp /\ ku = IdleKu
  /\ chatKem = NULL /\ hd = IdleHandlers /\ peerSecret = NULL
  /\ cr = IdleCr /\ chatLast = NoHandler /\ nSnaps = 0
  /\ kus = IdleUpdates /\ libCall = NoCall /\ libOut = NULL
  /\ store = EmptyStore /\ view = Unmounted /\ snd = IdleSnd
  /\ statusDoc = NoStatus /\ pr = HookUnmounted

\* The tab of that account after a reload: signed in at the provider, the
\* auth callback has run, the vault is locked.
LockedChatInit ==
  /\ AccountAtRest
  /\ currentUser = Some(firebaseUser) /\ userProfile = usersDoc
  /\ loading = FALSE /\ inMemVault = NULL /\ isDecoyMode = FALSE
  /\ authUser = Some(Uid)
  /\ last = NoReturn /\ nCalls = 2

\* That account after logout and login(email, p2): the decoy session.
DecoyChatInit ==
  /\ AccountAtRest
  /\ currentUser = Some([uid |-> Uid, email |-> Email, fake |-> TRUE])
  /\ userProfile = usersDoc
  /\ loading = FALSE /\ inMemVault = NULL /\ isDecoyMode = TRUE
  /\ authUser = NULL
  /\ last = Returned("login", "decoy", << "findByEmail", "hash" >>)
  /\ nCalls = 3

\* The ChatRoom of the recipient in each session it can be opened in:
\* vault unlocked, vault locked, decoy.
RecipientSpec ==
  (ChatInit \/ LockedChatInit \/ DecoyChatInit) /\ [][ChatNext]_vars

\* ------------------------- key updates that overlap (several chats)
AllChats      == {"c1", "c2"}
UpdateSecrets == {"s1", "s2"}

\* decapAndSaveKey(chatId, ciphertext) or encapAndSaveKey(chatId, pk) is
\* called as call number i: past the guards it derives the secret and keeps
\* the vault of the render it was called from.  An encapsulation holds the
\* ciphertext (ct) it returns (ret) as its last statement.
UpdateCall(i, op, chatId, ss) ==
  /\ ChildrenRendered /\ kus[i].pc = "idle"
  /\ \A j \in 1..(i - 1) : kus[j].pc # "idle"
  /\ keyUpdateGuard = "pass"
  /\ kus' = [kus EXCEPT ![i] =
       [pc |-> "persist", op |-> op, chat |-> chatId,
        secret |-> IF op = "decapAndSaveKey"
                     THEN decapSharedSecret(
                            Get(inMemVault).kyberPrivateKey,
                            encapSharedSecret(generateKyberKeyPair.publicKey,
                                              ss).ciphertext)
                     ELSE encapSharedSecret(PeerPublicKey, ss).sharedSecret,
        vault |-> inMemVault,
        ct |-> IF op = "encapAndSaveKey"
                 THEN Some(encapSharedSecret(PeerPublicKey, ss).ciphertext)
                 ELSE NULL,
        ret |-> NULL]]
  /\ UNCHANGED << react, extern, procs, last, nCalls, chat, lib, room >>

\* { ...inMemVault.sharedSecrets, [chatId]: secret } of call i's closure.
UpdateSecretsMap(i) ==
  WithSecret(Get(kus[i].vault).sharedSecrets, kus[i].chat, kus[i].secret)

\* The payload of call i's write.
UpdateWrite(i) ==
  [encryptedSharedSecrets |->
     encryptWithAES(Get(kus[i].vault).masterKey,
                    JSONstringify(UpdateSecretsMap(i)))]

\* A key update that changes the in-memory map although its write failed.
UpdatePersist_KeepsEntryOnFailure(i) ==
  /\ kus[i].pc = "persist"
  /\ \/ /\ ~IsNull(vaultDoc)
        /\ vaultDoc' = Some(updateDoc(Get(vaultDoc), UpdateWrite(i)))
        /\ kus' = [kus EXCEPT ![i].pc = "setVault"]
        /\ UNCHANGED << last, inMemVault >>
     \/ /\ kus' = [kus EXCEPT ![i].pc = "failed"]
        /\ inMemVault' = IF IsNull(inMemVault) THEN NULL
                         ELSE Some([Get(inMemVault) EXCEPT
                                      !.sharedSecrets = UpdateSecretsMap(i)])
        /\ last' = Returned(kus[i].op, "firestore/unavailable", << >>)
        /\ UNCHANGED vaultDoc
  /\ UNCHANGED << currentUser, userProfile, loading, isDecoyMode, authUser,
                  credPassword, usersDoc, authEvents, cbInFlight, procs,
                  nCalls, chat, lib, room >>

\* await updateDoc(keyVaults/{uid}, { encryptedSharedSecrets }) of call i:
\* written, or it rejects and the call throws (nothing after it runs: no
\* setInMemVault, no return value).
UpdatePersist(i) ==
  /\ kus[i].pc = "persist"
  /\ \/ /\ ~IsNull(vaultDoc)
        /\ vaultDoc' = Some(updateDoc(Get(vaultDoc), UpdateWrite(i)))
        /\ kus' = [kus EXCEPT ![i].pc = "setVault"]
        /\ UNCHANGED last
     \/ /\ kus' = [kus EXCEPT ![i].pc = "failed"]
        /\ last' = Returned(kus[i].op, "firestore/unavailable", << >>)
        /\ UNCHANGED vaultDoc
  /\ UNCHANGED << react, authUser, credPassword, usersDoc, authEvents,
                  cbInFlight, procs, nCalls, chat, lib, room >>

\* setInMemVault((v) => v ? { ...v, sharedSecrets: newSecretsMap } : null)
\* of call i, then it returns (encapAndSaveKey: the ciphertext).
UpdateFinish(i) ==
  /\ kus[i].pc = "setVault"
  /\ inMemVault' = IF IsNull(inMemVault) THEN NULL
                   ELSE Some([Get(inMemVault) EXCEPT
                                !.sharedSecrets = UpdateSecretsMap(i)])
  /\ kus' = [kus EXCEPT ![i].pc = "done", ![i].ret = kus[i].ct]
  /\ last' = Returned(kus[i].op, "ok", << >>)
  /\ UNCHANGED << currentUser, userProfile, loading, isDecoyMode, extern,
                  procs, nCalls, chat, lib, room >>

UpdateNext ==
  \/ \E i \in 1..MaxUpdates, chatId \in AllChats, ss \in UpdateSecrets,
        op \in {"decapAndSaveKey", "encapAndSaveKey"} :
       UpdateCall(i, op, chatId, ss)
  \/ \E i \in 1..MaxUpdates : UpdatePersist(i)
  \/ \E i \in 1..MaxUpdates : UpdateFinish(i)
  \/ Logout
  \/ AuthCallbackStart

\* Key updates called in an unlocked session, side by side or one after
\* the other, and a logout that may come in between.
UpdateSpec == ChatInit /\ [][UpdateNext]_vars

\* ------------------------------------ lib/firebase.ts on character strings
\* Strings are sequences of characters; the alphabet has a lower-case
\* letter, its upper-case form and the separator of the packed format.
MaxLen  == 4
Chars   == {"a", "A", ":"}
Strings == UNION { [1..n -> Chars] : n \in 0..MaxLen }

\* String.prototype.toLowerCase.
toLowerCase(str) == [i \in 1..Len(str) |-> IF str[i] = "A" THEN "a" ELSE str[i]]

\* String.prototype.split(separator): the pieces between the separators,
\* empty pieces included; a string without separator is its only piece.
RECURSIVE split(_, _)
split(str, separator) ==
  IF \A i \in 1..Len(str) : str[i] # separator
    THEN << str >>
    ELSE LET i == CHOOSE j \in 1..Len(str) :
                    /\ str[j] = separator
                    /\ \A k \in 1..(j - 1) : str[k] # separator
         IN  << SubSeq(str, 1, i - 1) >>
               \o split(SubSeq(str, i + 1, Len(str)), separator)

\* What a library call gave (returned or threw) and the calls it made.
LibResult(res, calls) == [res |-> res, calls |-> calls]

\* What the part of decryptWithAES past its format check can end in: atob
\* rejects a segment, the tag does not verify, or the plaintext.
DecryptOutcomes ==
  { LibResult("InvalidCharacterError", << "atob" >>),
    LibResult("OperationError", << "atob", "atob", "crypto.subtle.decrypt" >>),
    LibResult("plaintext", << "atob", "atob", "crypto.subtle.decrypt" >>) }

\* A format check that only asks for the separator to be there.
decryptWithAES_Format_AtLeastTwo(encryptedData) ==
  IF Len(split(encryptedData, ":")) < 2
    THEN { LibResult("Invalid encrypted data format", << >>) }
    ELSE DecryptOutcomes

\* decryptWithAES on the packed string: split on ':', reject unless there
\* are exactly two parts, only then decode and decrypt.  The set of
\* possible results.
decryptWithAES_Format(encryptedData) ==
  IF Len(split(encryptedData, ":")) # 2
    THEN { LibResult("Invalid encrypted data format", << >>) }
    ELSE DecryptOutcomes

\* A call of one library function on one string.
LibInit ==
  /\ currentUser = NULL /\ userProfile = NULL /\ loading = TRUE
  /\ inMemVault = NULL /\ isDecoyMode = FALSE
  /\ authUser = NULL /\ credPassword = NULL
  /\ usersDoc = NULL /\ vaultDoc = NULL
  /\ authEvents = << NULL >> /\ cbInFlight = 0
  /\ su = IdleSu /\ lg = IdleLg /\ cp = IdleCp /\ ku = IdleKu
  /\ last = NoReturn /\ nCalls = 0
  /\ chatKem = NULL /\ hd = IdleHandlers /\ peerSecret = NULL
  /\ cr = IdleCr /\ chatLast = NoHandler /\ nSnaps = 0
  /\ kus = IdleUpdates
  /\ libCall \in [fn : {"decryptWithAES", "getSaltForUser"}, arg : Strings]
  /\ libOut = NULL
  /\ store = EmptyStore /\ view = Unmounted /\ snd = IdleSnd
  /\ statusDoc = NoStatus /\ pr = HookUnmounted

\* decryptWithAES(key, encryptedData) runs.
LibDecrypt ==
  /\ libCall.fn = "decryptWithAES" /\ IsNull(libOut)
  /\ \E r \in decryptWithAES_Format(libCall.arg) : libOut' = Some(r)
  /\ UNCHANGED << react, extern, procs, last, nCalls, chat, kus, libCall, room >>

\* getSaltForUser(email) runs.
LibSalt ==
  /\ libCall.fn = "getSaltForUser" /\ IsNull(libOut)
  /\ libOut' = Some(LibResult(getSaltForUser(libCall.arg),
                              << "crypto.subtle.digest" >>))
  /\ UNCHANGED << react, extern, procs, last, nCalls, chat, kus, libCall, room >>

LibNext == LibDecrypt \/ LibSalt

LibSpec == LibInit /\ [][LibNext]_vars

\* ------------------------------------------------- ChatRoom: messages
MaxMessages == 1
PeerTexts == {"hi"}
MyTexts   == {"yo"}

\* A document of chats/{chatId}/messages; doc.id is its place in the
\* collection ordered by timestamp.
Message(senderId, encryptedText) ==
  [senderId |-> senderId, encryptedText |-> encryptedText]
MessageIds(messages) == 1..Len(messages)

\* How handleSendMessage ended.
SendEnded(how) == [pc |-> "idle", encryptedText |-> NULL, senderId |-> NULL,
                   ended |-> how]

\* ProtectedRoute shows its children, the ChatRoom among them, only when
\* nothing is loading and isVaultUnlocked; otherwise it navigates away.
RoomMounted == ChildrenRendered /\ isVaultUnlocked

\* The messages listener: setMessages(msgs) with the collection as it is.
MessagesSnapshot ==
  /\ RoomMounted
  /\ view.messages # store.messages
  /\ view' = [view EXCEPT !.messages = store.messages]
  /\ UNCHANGED << react, extern, procs, last, nCalls, chat, kus, lib,
                  store, snd, statusDoc, pr >>

\* The dependency list [messages, chatId, getChatKey, decryptedMessages] of
\* the decrypting effect: getChatKey is a new function at every render of
\* the provider, which renders when its state changes.
EffectDeps == << view.messages, react, view.decryptedMessages >>

\* A text shown for a message whatever the key.
ShownText_Raw(key, msg) == msg.encryptedText.data

\* The try / catch around decryptWithAES in decryptAll.
ShownText(key, msg) ==
  IF decryptWithAES(key, msg.encryptedText) = "OperationError"
  THEN "[DECRYPTION FAILED]"
  ELSE decryptWithAES(key, msg.encryptedText)

\* decryptAll with a key: new Map(decryptedMessages) plus an entry for
\* every message id it does not hold yet.
DecryptedWith(key, old, messages) ==
  [id \in (DOMAIN old) \cup MessageIds(messages) |->
     IF id \in DOMAIN old THEN old[id] ELSE ShownText(key, messages[id])]

\* decryptAll without a key: setDecryptedMessages(new Map()).
decryptAll_NoKey ==
  NewMap(1 - view.decryptedMessages.ref, NoEntries)

\* The decrypting effect runs: its dependencies differ from those of its
\* last run.
DecryptEffect ==
  /\ RoomMounted
  /\ view.ranWith # Some(EffectDeps)
  /\ LET key == getChatKey("c1")
         old == view.decryptedMessages
         needsUpdate == MessageIds(view.messages) \ DOMAIN old.entries # {}
     IN view' = [view EXCEPT
           !.ranWith = Some(EffectDeps),
           !.decryptedMessages =
              IF Len(view.messages) = 0 THEN old
              ELSE IF IsNull(key) THEN decryptAll_NoKey
              ELSE IF needsUpdate
                   THEN NewMap(1 - old.ref,
                               DecryptedWith(Get(key), old.entries,
                                             view.messages))
                   ELSE old]
  /\ UNCHANGED << react, extern, procs, last, nCalls, chat, kus, lib,
                  store, snd, statusDoc, pr >>

\* A send that writes the text as it is when there is no key.
SendStart_Plain(text) ==
  snd' = [pc |-> "addDoc", senderId |-> Some(Get(currentUser).uid),
          ended |-> "none",
          encryptedText |->
            IF IsNull(getChatKey("c1"))
            THEN Some([key |-> "none", data |-> text])
            ELSE Some(encryptWithAES(Get(getChatKey("c1")), text))]

\* handleSendMessage up to its first write: the key, then encryptWithAES.
SendStart(text) ==
  IF IsNull(getChatKey("c1")) THEN snd' = SendEnded("noKey")
  ELSE snd' = [pc |-> "addDoc", senderId |-> Some(Get(currentUser).uid),
               ended |-> "none",
               encryptedText |->
                 Some(encryptWithAES(Get(getChatKey("c1")), text))]

\* handleSendMessage(text) is called, in whatever state the session is.
SendCall(text) ==
  /\ ChildrenRendered /\ snd.pc = "idle"
  /\ Len(store.messages) < MaxMessages
  /\ IF IsNull(currentUser) THEN snd' = SendEnded("noUser")
     ELSE SendStart(text)
  /\ UNCHANGED << react, extern, procs, last, nCalls, chat, kus, lib,
                  store, view, statusDoc, pr >>

\* await addDoc(collection(db, 'chats', chatId, 'messages'), newMessage)
SendAdd ==
  /\ snd.pc = "addDoc"
  /\ \/ /\ Len(store.messages) < MaxMessages
        /\ store' = [store EXCEPT !.messages =
                       Append(@, Message(Get(snd.senderId),
                                         Get(snd.encryptedText)))]
        /\ snd' = [snd EXCEPT !.pc = "updateDoc"]
     \/ /\ snd' = SendEnded("addDoc failed")
        /\ UNCHANGED store
  /\ UNCHANGED << react, extern, procs, last, nCalls, chat, kus, lib, view,
                  statusDoc, pr >>

\* await updateDoc(doc(db, 'chats', chatId), { lastMessage: ... })
SendLast ==
  /\ snd.pc = "updateDoc"
  /\ \/ /\ store' = [store EXCEPT !.lastMessage =
                       Some(Message(Get(snd.senderId),
                                    Get(snd.encryptedText)))]
        /\ snd' = SendEnded("sent")
     \/ /\ snd' = SendEnded("updateDoc failed")
        /\ UNCHANGED store
  /\ UNCHANGED << react, extern, procs, last, nCalls, chat, kus, lib, view,
                  statusDoc, pr >>

\* The peer's handleSendMessage, under the secret the peer holds.
PeerSend(text) ==
  /\ ~IsNull(peerSecret)
  /\ Len(store.messages) < MaxMessages
  /\ LET encryptedText ==
           encryptWithAES(importSharedSecret(Get(peerSecret)), text)
     IN store' = [messages |-> Append(store.messages,
                                      Message(Peer, encryptedText)),
                  lastMessage |-> Some(Message(Peer, encryptedText))]
  /\ UNCHANGED << react, extern, procs, last, nCalls, chat, kus, lib,
                  view, snd, statusDoc, pr >>

RoomNext ==
  \/ MessagesSnapshot
  \/ DecryptEffect
  \/ \E text \in MyTexts : SendCall(text)
  \/ SendAdd
  \/ SendLast
  \/ \E text \in PeerTexts : PeerSend(text)

MsgNext == ChatNext \/ RoomNext

MsgSpec == (ChatInit \/ LockedChatInit \/ DecoyChatInit) /\ [][MsgNext]_vars

\* The effects of the ChatRoom are run by React whenever they are due.
FairMsgSpec == MsgSpec /\ WF_vars(DecryptEffect)

\* ------------------------------------------------- usePresence (self)
MaxPending == 2

\* What the self-presence effect depends on, [currentUser, isVaultUnlocked],
\* while the component calling usePresence() is shown; NULL while it is not.
PresenceDeps ==
  IF RoomMounted THEN Some(<< currentUser, isVaultUnlocked >>) ELSE NULL

\* The effect's condition for presenting the user as online.
PresenceWanted ==
  RoomMounted /\ ~IsNull(currentUser) /\ isVaultUnlocked

\* The self-presence effect runs because its dependencies changed or its
\* component was shown or removed: first the clean-up of the previous run
\* (onDisconnect(...).cancel(), set offline), then the new run, which
\* either sets offline or sends the onDisconnect registration.
PresenceEffect ==
  /\ pr.ranWith # PresenceDeps
  /\ PresenceWanted => pr.pending < MaxPending
  /\ LET cleaned == IF pr.cleanup
                    THEN [state |-> "offline", onDisconnect |-> FALSE]
                    ELSE statusDoc
     IN statusDoc' =
          IF ~RoomMounted THEN cleaned
          ELSE IF PresenceWanted THEN [cleaned EXCEPT !.onDisconnect = TRUE]
          ELSE IF ~IsNull(currentUser) THEN [cleaned EXCEPT !.state = "offline"]
          ELSE cleaned
  /\ pr' = [ranWith |-> PresenceDeps,
            cleanup |-> PresenceWanted,
            pending |-> IF PresenceWanted THEN pr.pending + 1 ELSE pr.pending]
  /\ UNCHANGED << react, extern, procs, last, nCalls, chat, kus, lib,
                  store, view, snd >>

\* An onDisconnect registration is answered: .then sets the status online,
\* .catch only logs.
PresenceRegistered ==
  /\ pr.pending > 0
  /\ pr' = [pr EXCEPT !.pending = @ - 1]
  /\ \/ statusDoc' = [statusDoc EXCEPT !.state = "online"]
     \/ UNCHANGED statusDoc
  /\ UNCHANGED << react, extern, procs, last, nCalls, chat, kus, lib,
                  store, view, snd >>

PresenceNext == ChatNext \/ PresenceEffect \/ PresenceRegistered

PresenceSpec ==
  (ChatInit \/ LockedChatInit \/ DecoyChatInit) /\ [][PresenceNext]_vars

\* ================================================================ claims
\* A step of a handler that is in flight (not its call, not a reload).
LoginStep          == lg.pc # "idle" /\ lg' # lg /\ nCalls' = nCalls
ChangePasswordStep == cp.pc # "idle" /\ cp' # cp /\ nCalls' = nCalls

\* Collaborator calls that make up Vault.unlock and credential verification.
UnlockCalls == {"signIn", "derive", "readProfile", "readVault", "decrypt"}

\* C1: a login whose password hashes to the stored duressHash reaches
\* DecoyActive without signing in at the credential provider, deriving a
\* master key, reading the vault record or decrypting a field: the step that
\* enters DecoyActive is the return of a login that made none of these
\* calls, and it leaves no vault and the collaborators as they were.
C1_DuressPathNeverUnlocks ==
  [][ (~isDecoyMode /\ isDecoyMode') =>
        /\ last'.op = "login" /\ last'.res = "decoy"
        /\ \A i \in 1..Len(last'.trace) : last'.trace[i] \notin UnlockCalls
        /\ lg'.pc = "idle"
        /\ IsNull(inMemVault')
        /\ UNCHANGED << authUser, credPassword, vaultDoc, authEvents >> ]_vars

C1_Witness ==
  /\ isDecoyMode /\ last.op = "login" /\ last.res = "decoy"
  /\ last.trace = << "findByEmail", "hash" >>

\* C2: whenever the session is Unauthenticated (no current identity) or
\* DecoyActive, no in-memory vault is held.
C2_NoVaultOutsideUnlockedSession ==
  (IsNull(currentUser) \/ isDecoyMode) => IsNull(inMemVault)

\* How a getChatKey call ends: the function has no throw, it always
\* resolves, with a key or with null.
getChatKeyOutcome(chatId) == [kind |-> "resolved", value |-> getChatKey(chatId)]

DecoyRestrictedErrors ==
  {"Cannot use crypto in decoy mode.", "Cannot change password in decoy mode."}
VaultLockedErrors == {"Vault locked.", "User not fully authenticated."}

\* C3: while the session is DecoyActive, getChatKey, decapAndSaveKey,
\* encapAndSaveKey and changePassword each fail with the dedicated
\* decoy-restriction error, and none returns a value.
C3_DecoyCallsFailWithDecoyError ==
  (ChildrenRendered /\ DecoyActive) =>
     /\ keyUpdateGuard \in DecoyRestrictedErrors
     /\ changePasswordGuard \in DecoyRestrictedErrors
     /\ \A c \in Chats : getChatKeyOutcome(c).kind = "rejected"

AuthenticationErrors ==
  {"auth/invalid-credential", "Key vault not found.", "Invalid password."}

\* The session is Unauthenticated with the vault locked and nobody signed in
\* at the identity provider, or the sign-out notification that makes it so
\* is the last one waiting to be delivered.
LockedAndSignedOut ==
  /\ IsNull(authUser)
  /\ \/ IsNull(currentUser) /\ IsNull(inMemVault) /\ ~isDecoyMode
     \/ authEvents # << >> /\ IsNull(authEvents[Len(authEvents)])

\* C5: every failing normal login, whatever its cause, ends with the vault
\* locked and the session Unauthenticated (no current identity, no external
\* session left signed in) and is surfaced as an authentication error.
C5_FailedLoginLocksAndSignsOut ==
  [][ (LoginStep /\ lg'.pc = "idle" /\ last'.res \notin {"ok", "decoy"}) =>
        /\ last'.op = "login" /\ last'.res \in AuthenticationErrors
        /\ LockedAndSignedOut' ]_vars

\* C6: unlock is all-or-nothing.  A step of login installs a vault only
\* when both fields of the record it read decrypt under the key it derived,
\* and then the whole vault; a login whose decryption failed changes the
\* vault at most by dropping it.
C6_UnlockAllOrNothing ==
  [][ LoginStep =>
        IF /\ lg.pc = "decrypt"
           /\ CanDecrypt(LoginMasterKey, Get(lg.rec).encryptedPrivateKey)
           /\ CanDecrypt(LoginMasterKey, Get(lg.rec).encryptedSharedSecrets)
          THEN inMemVault' =
                 Some([masterKey |-> LoginMasterKey,
                       kyberPrivateKey |-> Get(lg.rec).encryptedPrivateKey.data,
                       sharedSecrets |->
                         JSONparse(Get(lg.rec).encryptedSharedSecrets.data)])
          ELSE inMemVault' = inMemVault \/ IsNull(inMemVault') ]_vars

\* A login sits in its catch block after exactly one of the two fields
\* decrypted.
C6_Witness ==
  /\ lg.pc = "logout"
  /\ CanDecrypt(LoginMasterKey, Get(lg.rec).encryptedPrivateKey)
       # CanDecrypt(LoginMasterKey, Get(lg.rec).encryptedSharedSecrets)

\* C7: a changePassword that fails, at whichever step, has written nothing
\* to the session: no step of it before the final swap touches the React
\* state, and it reports the failure.
C7_FailedRotationLeavesSessionUntouched ==
  [][ (ChangePasswordStep /\ cp.pc # "swap") =>
        /\ UNCHANGED << currentUser, userProfile, inMemVault, isDecoyMode,
                        loading >>
        /\ cp'.pc = "idle" =>
             last'.op = "changePassword" /\ last'.res # "ok" ]_vars

\* A rotation failed at the credential update after the new record was
\* written, and the session still holds the vault under the old master key.
C7_Witness ==
  /\ last.op = "changePassword" /\ last.res = RotationError
  /\ last.trace[Len(last.trace)] = "credential-failed"
  /\ VaultUnlocked /\ ~IsNull(vaultDoc)
  /\ Get(inMemVault).masterKey # Get(vaultDoc).encryptedPrivateKey.key

\* The master key the accepted credential derives.
CredentialMasterKey ==
  deriveMasterKey(Get(credPassword), getSaltForUser(Email))

\* C8: a failed rotation never locks the user out.  When a changePassword
\* has just reported failure and no other handler is writing, the password
\* the credential provider accepts is the password whose master key
\* decrypts both fields of the persisted record.
C8_CredentialOpensVault ==
  (last.op = "changePassword" /\ last.res = RotationError
     /\ cp.pc = "idle" /\ su.pc = "idle" /\ ku.pc = "idle"
     /\ ~IsNull(credPassword) /\ ~IsNull(vaultDoc)) =>
     /\ CanDecrypt(CredentialMasterKey, Get(vaultDoc).encryptedPrivateKey)
     /\ CanDecrypt(CredentialMasterKey, Get(vaultDoc).encryptedSharedSecrets)

OldMasterKey == deriveMasterKey(cp.cur, getSaltForUser(Email))

\* C9: when changePassword(old, new) returns successfully, the persisted
\* record unlocks under the new password to the private key and secrets map
\* the session held when the rotation was called, and no longer unlocks
\* under the old password.
C9_RotationPreservesContent ==
  [][ (ChangePasswordStep /\ cp.pc = "swap" /\ cp.new # cp.cur) =>
        /\ ~IsNull(vaultDoc')
        /\ CanDecrypt(NewMasterKey, Get(vaultDoc').encryptedPrivateKey)
        /\ CanDecrypt(NewMasterKey, Get(vaultDoc').encryptedSharedSecrets)
        /\ decryptWithAES(NewMasterKey, Get(vaultDoc').encryptedPrivateKey)
             = Get(cp.vault).kyberPrivateKey
        /\ JSONparse(decryptWithAES(NewMasterKey,
                       Get(vaultDoc').encryptedSharedSecrets))
             = Get(cp.vault).sharedSecrets
        /\ ~CanDecrypt(OldMasterKey, Get(vaultDoc').encryptedPrivateKey)
        /\ ~CanDecrypt(OldMasterKey, Get(vaultDoc').encryptedSharedSecrets)
    ]_vars

\* C10: changePassword proceeds in this order: re-authenticate, derive the
\* new key and re-encrypt both fields, persist the record, update the
\* credential, and only then replace the in-memory master key.  The step of
\* it that writes the in-memory vault comes after both the persist and the
\* credential update succeeded, and the provider then accepts the new
\* password.
C10_RotationOrder ==
  [][ ChangePasswordStep =>
        /\ inMemVault' # inMemVault =>
             /\ cp.trace = << "reauth", "derive", "encrypt", "persist",
                              "credential" >>
             /\ credPassword = Some(cp.new)
             /\ Get(inMemVault').masterKey = NewMasterKey
        /\ credPassword' # credPassword =>
             cp.trace = << "reauth", "derive", "encrypt", "persist" >>
        /\ vaultDoc' # vaultDoc => cp.trace = << "reauth" >> ]_vars

\* A rotation to a different password went through all its steps.
C10_Witness ==
  /\ last.op = "changePassword" /\ last.res = "ok"
  /\ last.trace = << "reauth", "derive", "encrypt", "persist", "credential",
                     "swap" >>
  /\ VaultUnlocked
  /\ Get(inMemVault).masterKey = CredentialMasterKey
  /\ Get(inMemVault).masterKey # deriveMasterKey("p1", getSaltForUser(Email))

\* The payload of the write a step makes to keyVaults/{uid}: signup's
\* setDoc, changePassword's updateDoc, or a key update's updateDoc.
VaultWrite ==
  IF su.pc = "writeVault" /\ su' # su THEN SignupVault
  ELSE IF cp.pc = "persist" /\ cp' # cp THEN ReencryptedVault
  ELSE KeyUpdateWrite

\* C11: the persisted VaultRecord is never partially updated.  Every step
\* that writes it, by signup, changePassword, encapAndSaveKey or
\* decapAndSaveKey, writes encryptedPrivateKey and encryptedSharedSecrets
\* together in the same write.
C11_BothFieldsWrittenTogether ==
  [][ vaultDoc' # vaultDoc =>
        DOMAIN VaultWrite = VaultFields ]_vars

\* The private key of whoever consumed the payload of the callback that
\* ended last.
RecipientPrivateKey ==
  IF chatLast.res = "cleared" THEN generateKyberKeyPair.privateKey
  ELSE PeerPrivateKey

\* The recipient's side of the handshake is complete, and the payload had
\* been encapsulated against the recipient's own public key.
HandshakeCompleted ==
  /\ chatLast.res \in {"cleared", "peer-cleared"}
  /\ Get(chatLast.kem).ciphertext.pk = PublicOf(RecipientPrivateKey)

C13_PayloadConsumedOnce ==
  \A h1, h2 \in 1..MaxSnapshots :
     /\ hd[h1].decapped => Get(hd[h1].kem).recipientId = Uid
     /\ (hd[h1].decapped /\ hd[h2].decapped /\ hd[h1].kem = hd[h2].kem)
          => h1 = h2

\* C14: a snapshot of a chat whose payload is cleared is a no-op for the
\* callback: no decapsulation, no vault write, no write to the chat
\* document, no error, and what getChatKey answers is not changed.
C14_ClearedPayloadIsNoOp ==
  [][ (nSnaps' = nSnaps + 1 /\ IsNull(chatKem)) =>
        /\ UNCHANGED << react, extern, procs, last, nCalls, chatKem,
                        peerSecret, cr >>
        /\ chatLast' = HandlerEnded("noop", NULL)
        /\ hd'[nSnaps'] = [pc |-> "done", kem |-> NULL, decapped |-> FALSE]
        /\ \A c \in Chats : getChatKey(c)' = getChatKey(c) ]_vars

\* A callback has consumed and cleared the payload, and a later snapshot
\* without payload has been handled.
C14_Witness ==
  /\ nSnaps = 2 /\ chatLast = HandlerEnded("noop", NULL)
  /\ hd[1].decapped /\ hd[1].pc = "done" /\ hd[2].pc = "done"
  /\ IsNull(chatKem) /\ ~IsNull(peerSecret)

\* An authentication attempt (signup or login) is in flight.
Authenticating == su.pc # "idle" \/ lg.pc # "idle"

\* C15: session transitions are serialized.  While an authentication
\* attempt is in flight no other authentication attempt, no password
\* rotation and no secret update is in flight.
C15_TransitionsSerialized ==
  /\ ~(su.pc # "idle" /\ lg.pc # "idle")
  /\ Authenticating => (cp.pc = "idle" /\ ku.pc = "idle")

\* A step that is a call of logout() by a child.
LogoutStep == nCalls' = nCalls + 1 /\ last'.op = "logout"

\* C16: logout from VaultUnlocked locks first.  The step of logout that
\* invalidates the external session has dropped the in-memory vault: the
\* vault is not held at a moment when nobody is signed in any more.
C16_LogoutLocksBeforeSignOut ==
  [][ (LogoutStep /\ VaultUnlocked) =>
        (IsNull(authUser') => IsNull(inMemVault')) ]_vars

\* C17: logout from DecoyActive is a pure in-memory reset to
\* Unauthenticated: identity, profile, vault and decoy flag are cleared, and
\* the identity provider is not called (no sign-out, no notification).
C17_DecoyLogoutIsLocalReset ==
  [][ (LogoutStep /\ DecoyActive) =>
        /\ IsNull(currentUser') /\ IsNull(userProfile')
        /\ IsNull(inMemVault') /\ ~isDecoyMode'
        /\ Unauthenticated'
        /\ last'.trace = << >>
        /\ UNCHANGED << authUser, credPassword, usersDoc, vaultDoc,
                        authEvents, cbInFlight >> ]_vars

\* A decoy session that sat on top of a signed-in provider session has been
\* logged out: the React state is reset, the provider session is as it was.
C17_Witness ==
  /\ last = Returned("logout", "ok", << >>)
  /\ Unauthenticated /\ IsNull(userProfile) /\ IsNull(inMemVault)
  /\ ~IsNull(authUser) /\ authEvents = << >>

\* The calls of a login that cross the network / storage boundary.
NetworkCalls(trace) ==
  SelectSeq(trace, LAMBDA c : c \in {"findByEmail", "signIn", "readProfile",
                                     "readVault"})

\* C18: at the network / storage boundary a login that enters DecoyActive
\* issues the same sequence of collaborator calls as a successful normal
\* login: identity lookup, credential sign-in, profile read, vault read.
C18_DuressLoginIndistinguishable ==
  (last.op = "login" /\ last.res \in {"ok", "decoy"}) =>
     NetworkCalls(last.trace)
       = << "findByEmail", "signIn", "readProfile", "readVault" >>

FailedLogin(ret) == ret.op = "login" /\ ret.res \notin {"ok", "decoy", "none"}

\* C19: the error a failed login surfaces does not depend on the cause.  A
\* login that fails right after another failed login surfaces the same
\* error value, whatever made each of them fail.
C19_LoginErrorIndependentOfCause ==
  [][ (LoginStep /\ FailedLogin(last) /\ FailedLogin(last') /\ lg'.pc = "idle")
        => last'.res = last.res ]_vars

\* C20: in DecoyActive the session holds a synthetic identity: the current
\* identity's id and the held profile are not those of the real identity
\* the e-mail lookup found.
C20_DecoyIdentityIsSynthetic ==
  (DecoyActive /\ ~IsNull(currentUser) /\ Get(currentUser).fake) =>
     /\ Get(currentUser).uid # Get(usersDoc).uid
     /\ userProfile # usersDoc

\* No signup, login, rotation or secret update is between its first and
\* its last statement.
NothingInFlight ==
  su.pc = "idle" /\ lg.pc = "idle" /\ cp.pc = "idle" /\ ku.pc = "idle"

\* C21: the persisted record and the in-memory vault agree.  Whenever the
\* operations called so far have all returned and the vault is unlocked,
\* unlocking the persisted record with the account's current password
\* yields the private key generated at signup and exactly the secrets map
\* held in memory.
C21_RecordAgreesWithMemory ==
  (NothingInFlight /\ VaultUnlocked /\ ~IsNull(vaultDoc)
     /\ ~IsNull(credPassword)) =>
     /\ CanDecrypt(CredentialMasterKey, Get(vaultDoc).encryptedPrivateKey)
     /\ CanDecrypt(CredentialMasterKey, Get(vaultDoc).encryptedSharedSecrets)
     /\ Get(vaultDoc).encryptedPrivateKey.data
          = generateKyberKeyPair.privateKey
     /\ JSONparse(Get(vaultDoc).encryptedSharedSecrets.data)
          = Get(inMemVault).sharedSecrets

\* The key login derived from the password it was given is not the key
\* that encrypted field f of the record it read.
WrongKeyFor(f) == Get(lg.rec)[f].key # LoginMasterKey

\* C22: unlocking a record with a password other than the one whose master
\* key encrypted it fails with an authentication error and installs no
\* vault.  The decryption step of a login whose key is wrong for a field
\* gets an OperationError for that field, enters the catch and leaves the
\* vault as it is; the catch ends the login with "Invalid password." and
\* at most drops the vault.
C22_WrongPasswordFailsUnlock ==
  [][ LoginStep =>
        /\ (lg.pc = "decrypt" /\ \E f \in VaultFields : WrongKeyFor(f)) =>
              /\ \A f \in VaultFields :
                    WrongKeyFor(f) =>
                      decryptWithAES(LoginMasterKey, Get(lg.rec)[f])
                        = "OperationError"
              /\ lg'.pc = "logout"
              /\ inMemVault' = inMemVault
              /\ last' = last
        /\ lg.pc = "logout" =>
              /\ last'.op = "login" /\ last'.res = "Invalid password."
              /\ last'.res \in AuthenticationErrors
              /\ inMemVault' = inMemVault \/ IsNull(inMemVault') ]_vars

\* A login with the password the provider accepts has failed on a record
\* that is encrypted under the key of another password.
C22_Witness ==
  /\ last.op = "login" /\ last.res = "Invalid password."
  /\ ~IsNull(vaultDoc) /\ ~IsNull(credPassword)
  /\ Get(vaultDoc).encryptedPrivateKey.key # CredentialMasterKey
  /\ IsNull(inMemVault)

\* The chat ids that have an entry in the in-memory secrets map.
MemKeys ==
  IF IsNull(inMemVault) THEN {} ELSE DOMAIN Get(inMemVault).sharedSecrets

\* C23: every key of the in-memory secrets map is the id of a chat whose
\* handshake this identity has completed.  A chat id enters the in-memory
\* map only (a) by the last statement of an encapAndSaveKey or
\* decapAndSaveKey for that chat id, after its write of the updated map
\* succeeded, with the secret that call derived; or as an entry that had
\* entered it that way before: (b) login unlocking the persisted record
\* that holds it, (c) changePassword putting back the map it started from.
C23_KeysOnlyFromCompletedHandshakes ==
  [][ \A c \in Chats :
        (c \in MemKeys' /\ c \notin MemKeys) =>
          \/ /\ ku.pc = "setVault" /\ ku.chat = c /\ ku' = IdleKu
             /\ ku.op \in {"decapAndSaveKey", "encapAndSaveKey"}
             /\ last' = Returned(ku.op, "ok", << >>)
             /\ Get(inMemVault').sharedSecrets[c] = ku.secret
          \/ /\ lg.pc = "decrypt" /\ lg' = IdleLg
             /\ c \in DOMAIN JSONparse(Get(lg.rec).encryptedSharedSecrets.data)
          \/ /\ cp.pc = "swap" /\ cp' = IdleCp
             /\ c \in DOMAIN Get(cp.vault).sharedSecrets ]_vars

\* A secret update has returned successfully and its chat id is in the
\* in-memory map and in the persisted record.
C23_Witness ==
  /\ last.op \in {"decapAndSaveKey", "encapAndSaveKey"} /\ last.res = "ok"
  /\ "c1" \in MemKeys /\ ~IsNull(vaultDoc)
  /\ "c1" \in DOMAIN JSONparse(Get(vaultDoc).encryptedSharedSecrets.data)

\* The number of separators in a string.
Colons(str) == Cardinality({ i \in 1..Len(str) : str[i] = ":" })

\* C24: decryptWithAES rejects with the format error, before any decoding
\* or cryptographic call, every packed value that does not split on ':'
\* into exactly two segments: no colon, or two or more colons.
C24_MalformedPackedRejected ==
  (libCall.fn = "decryptWithAES" /\ ~IsNull(libOut)
     /\ Colons(libCall.arg) # 1) =>
     Get(libOut) = LibResult("Invalid encrypted data format", << >>)

\* A packed value with two separators (three segments) has been rejected.
C24_Witness ==
  /\ libCall.fn = "decryptWithAES" /\ ~IsNull(libOut)
  /\ Colons(libCall.arg) = 2
  /\ Get(libOut).res = "Invalid encrypted data format"

\* C25: the salt is a function of the lower-cased e-mail: the salt of an
\* e-mail is the salt of its lower-case form, and so is the master key a
\* password derives with it.
C25_SaltOfLowerCasedEmail ==
  (libCall.fn = "getSaltForUser" /\ ~IsNull(libOut)) =>
     /\ Get(libOut).res = getSaltForUser(toLowerCase(libCall.arg))
     /\ \A password \in Passwords :
           deriveMasterKey(password, Get(libOut).res)
             = deriveMasterKey(password,
                               getSaltForUser(toLowerCase(libCall.arg)))

\* The secrets map of the persisted record, as its own key decrypts it.
PersistedSecrets == JSONparse(Get(vaultDoc).encryptedSharedSecrets.data)

\* C26: no lost secret update.  When two key updates for different chat
\* ids have both completed, and none is still running, both chat ids are
\* in the in-memory map and in the persisted map, each with its secret.
C26_NoLostSecretUpdate ==
  \A i, j \in 1..MaxUpdates :
    (/\ kus[i].pc = "done" /\ kus[j].pc = "done"
     /\ kus[i].chat # kus[j].chat
     /\ \A k \in 1..MaxUpdates : kus[k].pc \in {"idle", "done", "failed"}
     /\ VaultUnlocked) =>
       /\ {kus[i].chat, kus[j].chat} \subseteq MemKeys
       /\ Get(inMemVault).sharedSecrets[kus[i].chat] = kus[i].secret
       /\ {kus[i].chat, kus[j].chat} \subseteq DOMAIN PersistedSecrets
       /\ PersistedSecrets[kus[i].chat] = kus[i].secret

\* C27: in every reachable state of the persisted record both fields are
\* encrypted under the same master key, also when a secret update overlaps
\* a changePassword; and once a rotation has returned successfully and
\* nothing is running, the secrets in memory are the secrets persisted
\* (an entry stored by an overlapping update is in both).
C27_OneKeyForBothFields ==
  /\ ~IsNull(vaultDoc) =>
        Get(vaultDoc).encryptedPrivateKey.key
          = Get(vaultDoc).encryptedSharedSecrets.key
  /\ (last.op = "changePassword" /\ last.res = "ok" /\ NothingInFlight
        /\ VaultUnlocked /\ ~IsNull(vaultDoc)) =>
        PersistedSecrets = Get(inMemVault).sharedSecrets

\* The final step of a decapAndSaveKey / encapAndSaveKey whose write
\* succeeded.
KeyUpdateFinalStep ==
  /\ ku.pc = "setVault" /\ ku' = IdleKu
  /\ last' = Returned(ku.op, "ok", << >>)

\* C28: a key update whose write completes after the vault was locked
\* leaves it locked: its final in-memory update finds no vault and creates
\* none, and it touches nothing else of the session.
C28_LateKeyUpdateKeepsVaultLocked ==
  [][ (KeyUpdateFinalStep /\ IsNull(inMemVault)) =>
        /\ IsNull(inMemVault')
        /\ UNCHANGED << currentUser, userProfile, isDecoyMode, loading >> ]_vars

\* A key update has returned in a session whose vault had been dropped
\* while it was writing; its entry is in the persisted record only.
C28_Witness ==
  /\ last.op \in {"decapAndSaveKey", "encapAndSaveKey"} /\ last.res = "ok"
  /\ IsNull(inMemVault) /\ ku.pc = "idle"
  /\ Unauthenticated /\ IsNull(authUser)
  /\ ~IsNull(vaultDoc) /\ "c1" \in DOMAIN PersistedSecrets

\* C29: when the write of a secret update fails, the in-memory secrets map
\* is unchanged, the call reports the failure, and an encapAndSaveKey
\* returns no ciphertext: a ciphertext is returned only by a call that
\* stored its secret.
C29_FailedPersistChangesNothing ==
  [][ \A i \in 1..MaxUpdates :
        /\ (kus[i].pc = "persist" /\ kus'[i].pc = "failed") =>
              /\ inMemVault' = inMemVault /\ vaultDoc' = vaultDoc
              /\ last' = Returned(kus[i].op, "firestore/unavailable", << >>)
              /\ IsNull(kus'[i].ret)
        /\ kus[i].pc = "failed" => kus'[i] = kus[i]
        /\ ~IsNull(kus'[i].ret) => kus'[i].pc = "done" ]_vars

\* An encapAndSaveKey has failed at its write: no ciphertext came back and
\* the chat has no entry in the unlocked vault.
C29_Witness ==
  \E i \in 1..MaxUpdates :
    /\ kus[i].pc = "failed" /\ kus[i].op = "encapAndSaveKey"
    /\ IsNull(kus[i].ret) /\ ~IsNull(kus[i].ct)
    /\ VaultUnlocked /\ kus[i].chat \notin MemKeys
    /\ kus[i].chat \notin DOMAIN PersistedSecrets

\* A payload addressed to the current user is pending on the chat.
PendingForMe ==
  /\ ~IsNull(chatKem) /\ ~IsNull(currentUser)
  /\ Get(chatKem).recipientId = Get(currentUser).uid

\* C30: the recipient clears the pending payload only after
\* decapAndSaveKey for it completed successfully; when decapAndSaveKey
\* fails (vault locked, decoy mode, write failure) the payload stays
\* pending, and a later notification that finds it pending hands it to
\* decapAndSaveKey again.
C30_ClearOnlyAfterDecap ==
  [][ /\ (~IsNull(chatKem) /\ Get(chatKem).recipientId = Uid
            /\ IsNull(chatKem')) =>
           \E h \in 1..MaxSnapshots :
             /\ hd[h].pc = "clear" /\ hd[h].decapped /\ hd[h].kem = chatKem
             /\ hd'[h].pc = "done"
             /\ chatLast' = HandlerEnded("cleared", chatKem)
      /\ \A h \in 1..MaxSnapshots :
           (/\ hd[h].pc \in {"idle", "decap"} /\ hd'[h].pc = "done"
            /\ PendingForMe) =>
              /\ chatLast'.res \in {"Vault locked.",
                                    "Cannot use crypto in decoy mode.",
                                    "firestore/unavailable"}
              /\ ~hd'[h].decapped
              /\ chatKem' = chatKem
      /\ (nSnaps' = nSnaps + 1 /\ PendingForMe /\ keyUpdateGuard = "pass") =>
           /\ hd'[nSnaps'] = [pc |-> "decap", kem |-> chatKem,
                              decapped |-> FALSE]
           /\ ku'.pc = "persist" /\ ku'.op = "decapAndSaveKey"
           /\ ku'.by = nSnaps' ]_vars

\* The first notification's decapAndSaveKey failed and left the payload
\* pending; the second notification processed the same payload and
\* cleared it.
C30_Witness ==
  /\ hd[1].pc = "done" /\ ~hd[1].decapped /\ ~IsNull(hd[1].kem)
  /\ Get(hd[1].kem).recipientId = Uid
  /\ hd[2].pc = "done" /\ hd[2].decapped /\ hd[2].kem = hd[1].kem
  /\ chatLast = HandlerEnded("cleared", hd[2].kem) /\ IsNull(chatKem)

\* The identity the e-mail lookup finds carries a duress hash and it is
\* the hash of the password this login was given.
StoredDuressHashIsOf(password) ==
  /\ ~IsNull(usersDoc)
  /\ ~IsNull(Get(usersDoc).duressHash)
  /\ Get(usersDoc).duressHash = hashPasswordForStorage(password)

\* This step of login enters DecoyActive and returns.
EntersDecoy ==
  /\ isDecoyMode' /\ lg' = IdleLg
  /\ last' = Returned("login", "decoy", << "findByEmail", "hash" >>)

\* C31: login enters DecoyActive if and only if the e-mail lookup returns
\* an identity whose duressHash equals hash(password), also when that
\* password is the valid real credential; in every other case (nobody
\* found, no duressHash, mismatch, the lookup failing) it leaves the
\* session as it is and goes on to the credential sign-in.
C31_DecoyIffDuressHashMatches ==
  [][ (LoginStep /\ lg.pc = "duress") =>
        /\ EntersDecoy => StoredDuressHashIsOf(lg.pw)
        /\ (StoredDuressHashIsOf(lg.pw) /\ lg'.trace # << "findByEmail" >>)
             => EntersDecoy
        /\ ~EntersDecoy =>
             /\ lg'.pc = "signIn"
             /\ UNCHANGED << react, last, authUser >> ]_vars

\* A login has entered DecoyActive with a password that is both the duress
\* password and the password the credential provider accepts.
C31_Witness ==
  /\ DecoyActive /\ last.op = "login" /\ last.res = "decoy"
  /\ ~IsNull(usersDoc)
  /\ Get(usersDoc).duressHash = hashPasswordForStorage("p2")
  /\ credPassword = Some("p2")

\* C32: while the session is DecoyActive no real external session exists:
\* nobody is signed in at the identity provider, also when DecoyActive was
\* entered from a signed-in session; and after a decoy logout, with no
\* authentication attempt running, the provider reports no signed-in user.
C32_NoRealSessionInDecoy ==
  /\ DecoyActive => IsNull(authUser)
  /\ (last = Returned("logout", "ok", << >>) /\ ~Authenticating) =>
        IsNull(authUser)

\* C33: every login attempt eventually returns the loading flag to false,
\* on success, on the duress path and on every failure, so that the
\* children are rendered again.
C33_LoginEndsLoading == (lg.pc # "idle") ~> ~loading

\* The provider does not accept the current password this rotation was
\* given (or the user object it was given is not the provider's).
ReauthFails == credPassword # Some(cp.cur) \/ cp.fake

\* C34: when re-authentication with the current password fails,
\* changePassword ends there with the provider's error: it derives no key,
\* writes nothing to the vault store, does not call the credential update
\* and leaves the in-memory vault and the rest of the session unchanged.
C34_FailedReauthChangesNothing ==
  [][ (ChangePasswordStep /\ cp.pc = "reauth" /\ ReauthFails) =>
        /\ cp' = IdleCp
        /\ last' = Returned("changePassword", "auth/invalid-credential",
                            << "reauth" >>)
        /\ UNCHANGED << react, extern >> ]_vars

\* A rotation has ended at its re-authentication in an unlocked session.
C34_Witness ==
  /\ last = Returned("changePassword", "auth/invalid-credential",
                     << "reauth" >>)
  /\ VaultUnlocked /\ ~IsNull(vaultDoc) /\ cp.pc = "idle"
  /\ CanDecrypt(Get(inMemVault).masterKey, Get(vaultDoc).encryptedPrivateKey)

\* The secret this session holds for the chat.
MySecret == Get(inMemVault).sharedSecrets["c1"]

\* The payload the callback that ended last had read was encapsulated
\* against a public key that is not this user's.
LastPayloadMismatched ==
  /\ ~IsNull(chatLast.kem)
  /\ Get(chatLast.kem).recipientId = Uid
  /\ Get(chatLast.kem).ciphertext.pk # generateKyberKeyPair.publicKey

\* C35: a mismatch of the key encapsulation is not detected at handshake
\* time and never yields wrong plaintext.  A callback that read a payload
\* whose ciphertext does not belong to this user's key still ends with the
\* payload cleared and a secret stored, which is not the initiator's; and
\* while the secret held here differs from the peer's, every message
\* encrypted under the peer's secret that the ChatRoom has an entry for is
\* shown as "[DECRYPTION FAILED]", never as its decrypted text.
C35_MismatchFailsClosed ==
  /\ (chatLast.res = "cleared" /\ LastPayloadMismatched /\ VaultUnlocked)
       => ("c1" \in MemKeys /\ MySecret # Get(chatLast.kem).ciphertext.ss)
  /\ (VaultUnlocked /\ "c1" \in MemKeys /\ ~IsNull(peerSecret)
        /\ MySecret # Get(peerSecret))
       => \A id \in DOMAIN view.decryptedMessages.entries :
            (/\ id \in MessageIds(store.messages)
             /\ store.messages[id].encryptedText.key
                  = importSharedSecret(Get(peerSecret)))
              => view.decryptedMessages.entries[id] = "[DECRYPTION FAILED]"

\* The handshake on a mismatched ciphertext went through, the peer sent a
\* message under its secret, and the ChatRoom holds the failure text for it.
C35_Witness ==
  /\ chatLast.res = "cleared" /\ LastPayloadMismatched /\ VaultUnlocked
  /\ "c1" \in MemKeys /\ MySecret = "junk" /\ peerSecret = Some("s1")
  /\ Len(store.messages) = 1 /\ store.messages[1].senderId = Peer
  /\ 1 \in DOMAIN view.decryptedMessages.entries
  /\ view.decryptedMessages.entries[1] = "[DECRYPTION FAILED]"

\* A step that is a call of handleSendMessage, and a step in which one of
\* its writes reaches the conversation store.
SendCallStep  == snd.pc = "idle" /\ snd' # snd
SendWriteStep == snd.pc # "idle" /\ snd' # snd /\ store' # store

\* C36: every message handleSendMessage writes to the conversation store
\* (the message document and the chat's lastMessage) carries the text
\* encrypted under the key getChatKey gave for the chat; a call for which
\* getChatKey gives no key (vault locked, decoy mode, handshake not
\* completed) ends at once and writes nothing.
C36_SendsOnlyCiphertext ==
  [][ /\ SendCallStep =>
           /\ store' = store
           /\ IsNull(getChatKey("c1")) => snd'.pc = "idle"
           /\ snd'.pc # "idle" =>
                \E text \in MyTexts :
                  snd'.encryptedText
                    = Some(encryptWithAES(Get(getChatKey("c1")), text))
      /\ SendWriteStep =>
           LET written == Message(Get(snd.senderId), Get(snd.encryptedText))
           IN \/ /\ store'.messages = Append(store.messages, written)
                 /\ store'.lastMessage = store.lastMessage
              \/ /\ store'.messages = store.messages
                 /\ store'.lastMessage = Some(written) ]_vars

\* A message of this user went out under the key of the completed
\* handshake, as message document and as lastMessage.
C36_Witness ==
  /\ snd.ended = "sent"
  /\ store.messages
       = << Message(Uid, encryptWithAES(importSharedSecret("s1"), "yo")) >>
  /\ store.lastMessage
       = Some(Message(Uid, encryptWithAES(importSharedSecret("s1"), "yo")))

\* The decrypting effect has nothing to do: the ChatRoom is not shown, or
\* the dependencies are those of the effect's last run.
EffectSettled == ~RoomMounted \/ view.ranWith = Some(EffectDeps)

\* C37: the message-decryption effect reaches a fixed point.  Once the
\* message list and the vault state stay as they are, the effect runs
\* finitely often and then issues no further state update, with the chat
\* key present as well as with no key and a non-empty message list.
C37_DecryptEffectSettles == <>[]EffectSettled

\* C38: the user's own presence is written as online only while a current
\* user exists and the vault is unlocked, and every exit from that
\* condition (logout, lock, decoy transition, unmount) leaves the last
\* written status offline, also when the exit happens before the
\* onDisconnect registration was answered: once the presence effect has
\* caught up with a session that is not to be presented, the status is not
\* online.
C38_OnlineOnlyWhileUnlocked ==
  (pr.ranWith = PresenceDeps /\ ~PresenceWanted) => statusDoc.state # "online"

\* C39: every identity for which the credential provider accepts a
\* sign-in has a persisted vault record and a profile.  Once no signup is
\* in flight, an account that exists at the provider has both documents,
\* whatever the outcome of the signup that created it.
C39_AccountHasVaultRecord ==
  (~IsNull(credPassword) /\ su.pc = "idle") =>
     (~IsNull(usersDoc) /\ ~IsNull(vaultDoc))

\* ------------------------------------------------------------ next state
Next ==
  \/ Reload
  \/ AuthCallbackStart
  \/ AuthCallbackFinish
  \/ \E password \in Passwords,
        duress \in {NULL} \cup {Some(d) : d \in DuressPasswords} :
       SignupCall(password, duress)
  \/ SignupCreate
  \/ SignupWriteProfile
  \/ SignupWriteVault
  \/ SignupFinish
  \/ Logout
  \/ \E password \in Passwords : LoginCall(password)
  \/ LoginDuressCheck
  \/ LoginSignIn
  \/ LoginReadVault
  \/ LoginDecrypt
  \/ LoginLogout
  \/ \E cur \in Passwords, new \in Passwords : ChangePasswordCall(cur, new)
  \/ ChangePasswordReauth
  \/ ChangePasswordPersist
  \/ ChangePasswordCredential
  \/ ChangePasswordSwap
  \/ \E chatId \in Chats, pk \in PeerTargets, ss \in Secrets :
       DecapAndSaveKeyCall(chatId, [pk |-> pk, ss |-> ss])
  \/ \E chatId \in Chats, ss \in Secrets :
       EncapAndSaveKeyCall(chatId, "pk2", ss)
  \/ KeyUpdatePersist
  \/ KeyUpdateFinish

Spec == Init /\ [][Next]_vars

\* What runs without anybody calling it: the continuation of every handler
\* past an await, and the delivery of auth-state notifications.
Continuations ==
  \/ AuthCallbackStart \/ AuthCallbackFinish
  \/ SignupCreate \/ SignupWriteProfile \/ SignupWriteVault \/ SignupFinish
  \/ LoginDuressCheck \/ LoginSignIn \/ LoginReadVault \/ LoginDecrypt
  \/ LoginLogout
  \/ ChangePasswordReauth \/ ChangePasswordPersist
  \/ ChangePasswordCredential \/ ChangePasswordSwap
  \/ KeyUpdatePersist \/ KeyUpdateFinish

\* Every promise settles and every notification is delivered; nobody is
\* obliged to call anything or to reload.
FairSpec == Init /\ [][Next]_vars /\ WF_vars(Continuations)
====
